---------------------------- MODULE Spec2Model ----------------------------
(***************************************************************************)
(* LINE <-> Kommo bridge (nusapenidainfo/line-kommo-bridge).               *)
(*                                                                         *)
(* The repository holds six revisions of one index.js.  The model carries  *)
(* the revision as the state variable `variant`, fixed at start-up:        *)
(*   "oauth"    src/index.js 1-632        (OAuth client-credentials)       *)
(*   "apikey"   src/index.js 634-1249     (long-lived API key)             *)
(*   "byname"   src/unnamed/part_000 1-463                                 *)
(*   "leadonly" src/unnamed/part_000 465-897                               *)
(*   "token"    src/unnamed/part_001      (pre-issued access token)        *)
(*   "leadtag"  src/unnamed/part_002                                       *)
(*                                                                         *)
(* Strings are sequences of atoms (indivisible substrings), so that        *)
(* concatenation, includes(), startsWith(), replace() and the regular      *)
(* expressions of the source are computed, not assumed.                    *)
(***************************************************************************)
EXTENDS Integers, Sequences, FiniteSets, TLC

VARIABLES
    variant,                    \* which revision of index.js is running
    LINE_CHANNEL_SECRET,        \* process.env.LINE_CHANNEL_SECRET (<<>> = unset)
    LINE_CHANNEL_ACCESS_TOKEN,  \* TRUE iff process.env.LINE_CHANNEL_ACCESS_TOKEN is set
    KOMMO_CREDENTIALS,          \* TRUE iff KOMMO_SUBDOMAIN and the Kommo credential are set
    fn,                         \* a pure function under check: its inputs and its result
    contacts,                   \* Kommo: the contacts, oldest first
    leads,                      \* Kommo: the leads, oldest first
    notes,                      \* Kommo: the notes, oldest first
    kommoTokenCache,            \* the module-level OAuth token cache ("oauth")
    now,                        \* Date.now(), in milliseconds
    req,                        \* the LINE delivery being handled
    tasks,                      \* the async functions in flight, each at an await
    log,                        \* history: the outbound calls of each task, in order
    res,                        \* the HTTP responses sent to the delivery
    done,                       \* history: the outcome of every event handled so far
    deliveries,                 \* deliveries received so far
    eventsSeen,                 \* events delivered so far
    failures                    \* outbound calls that failed so far

config == <<variant, LINE_CHANNEL_SECRET, LINE_CHANNEL_ACCESS_TOKEN, KOMMO_CREDENTIALS>>
crm == <<contacts, leads, notes>>
counters == <<deliveries, eventsSeen, failures>>
vars == <<config, fn, crm, kommoTokenCache, now, req, tasks, log, res, done, counters>>

---------------------------------------------------------------------------
(* Bounds *)

MaxBodyLen == 2      \* raw bodies of the signature check: up to this many bytes
MaxSecretLen == 1    \* channel secrets: up to this many bytes
MaxDeliveries == 2   \* deliveries to /line/webhook over a run
MaxEvents == 2       \* events delivered over a run
MaxFailures == 1     \* outbound calls that fail over a run
MaxTicks == 1        \* steps of the clock over a run
MaxReplies == 1      \* deliveries to /kommo/webhook over a run

---------------------------------------------------------------------------
(* Revisions *)

Variants == {"oauth", "apikey", "byname", "leadonly", "token", "leadtag"}

---------------------------------------------------------------------------
(* Generic helpers *)

Bytes == {0, 1}

SeqsUpTo(S, n) == UNION {[1..k -> S] : k \in 0..n}

---------------------------------------------------------------------------
(* LINE signature                                                          *)

\* A request body as express.text() leaves it in req.body: a string, or
\* the object {} when the request carried no body to parse.
StringBody(bytes) == [isString |-> TRUE, bytes |-> bytes]
NoBody == [isString |-> FALSE, bytes |-> <<>>]

\* The x-line-signature header: absent (undefined) or a string.
NoHeader == [present |-> FALSE, value |-> <<>>]
Header(v) == [present |-> TRUE, value |-> v]

Base64Digits == 0..3

\* JavaScript truthiness of a header value.
Truthy(h) == h.present /\ h.value # <<>>

\* The digest is written in two base-64 digits.
DigestSpace == Cardinality(Base64Digits) * Cardinality(Base64Digits)

RECURSIVE Absorb(_, _)
Absorb(h, bytes) ==
    IF bytes = <<>> THEN h
    ELSE Absorb((h * 5 + Head(bytes) + 1) % DigestSpace, Tail(bytes))

\* crypto.createHmac("sha256", key).update(body): a keyed digest of the
\* exact bytes of the body (a small keyed hash stands for SHA-256).
HmacSha256(key, bytes) == Absorb(Absorb(Absorb(7, key), bytes), key)

\* .digest("base64"): the digest written in a fixed number of digits.
Base64(d) == <<d \div 4, d % 4>>

\* index.js: fail closed on a missing header, compare on a present one.
\* hash.update(rawBody) throws on a body that is no string: caught, false.
verifyLineSignature(rawBody, signatureHeader) ==
    IF LINE_CHANNEL_SECRET = <<>> THEN TRUE
    ELSE IF ~Truthy(signatureHeader) THEN FALSE
    ELSE IF ~rawBody.isString THEN FALSE
    ELSE Base64(HmacSha256(LINE_CHANNEL_SECRET, rawBody.bytes)) = signatureHeader.value

\* part_000 (both revisions) and part_002: the check is skipped when the
\* secret or the header is missing.
verifyLineSignature_part000(bodyString, signature) ==
    IF LINE_CHANNEL_SECRET = <<>> \/ ~Truthy(signature) THEN TRUE
    ELSE IF ~bodyString.isString THEN FALSE
    ELSE Base64(HmacSha256(LINE_CHANNEL_SECRET, bodyString.bytes)) = signature.value

\* part_001: every path returns true ("always true, so as not to break
\* while debugging").
verifyLineSignature_part001(rawBody, signatureHeader) ==
    IF LINE_CHANNEL_SECRET = <<>> THEN TRUE
    ELSE IF ~Truthy(signatureHeader) THEN TRUE
    ELSE TRUE

\* The check the running revision applies.
VerifySignature(rawBody, signatureHeader) ==
    CASE variant \in {"oauth", "apikey"} -> verifyLineSignature(rawBody, signatureHeader)
      [] variant \in {"byname", "leadonly", "leadtag"} ->
             verifyLineSignature_part000(rawBody, signatureHeader)
      [] variant = "token" -> verifyLineSignature_part001(rawBody, signatureHeader)

---------------------------------------------------------------------------
(* Strings                                                                 *)

SP == " "
Whitespace == {" ", "\n"}

\* String.prototype.includes: `sub` occurs in `s` as a contiguous run.
Includes(s, sub) ==
    \E i \in 1..(Len(s) - Len(sub) + 1) : SubSeq(s, i, i + Len(sub) - 1) = sub

RECURSIVE TrimStart(_)
TrimStart(s) ==
    IF s # <<>> /\ Head(s) \in Whitespace THEN TrimStart(Tail(s)) ELSE s

RECURSIVE TrimEnd(_)
TrimEnd(s) ==
    IF s # <<>> /\ s[Len(s)] \in Whitespace THEN TrimEnd(SubSeq(s, 1, Len(s) - 1)) ELSE s

\* String.prototype.trim
Trim(s) == TrimEnd(TrimStart(s))

\* a || b on strings (null, undefined and "" are all <<>>)
Or(a, b) == IF a # <<>> THEN a ELSE b

---------------------------------------------------------------------------
(* Naming conventions                                                      *)

makeLineContactName(lineUserId, displayName) ==
    IF displayName # <<>>
    THEN <<"LINE", SP>> \o displayName \o <<SP, "(">> \o lineUserId \o <<")">>
    ELSE <<"LINE", SP>> \o lineUserId

makeLineLeadName(displayName) ==
    IF displayName # <<>> THEN <<"[LINE]", SP>> \o displayName
    ELSE <<"[LINE]", SP, "New LINE lead">>

GenericTag == <<"LINE">>
UidTag(lineUserId) == <<"LINE_UID_">> \o lineUserId

---------------------------------------------------------------------------
(* The LINE webhook body                                                   *)

U1 == <<"U1">>
U2 == <<"U2">>
Hello == <<"Hello">>

Event(type, mtype, text, userId, groupId, roomId) ==
    [type |-> type, mtype |-> mtype, text |-> text,
     userId |-> userId, groupId |-> groupId, roomId |-> roomId]

\* The events a delivery may carry: mtype "none" is an event without a
\* message object.
TextFromU1 == Event("message", "text", Hello, U1, <<>>, <<>>)
TextFromU2 == Event("message", "text", Hello, U2, <<>>, <<>>)
Sticker == Event("message", "sticker", <<>>, U1, <<>>, <<>>)
TextNoSource == Event("message", "text", Hello, <<>>, <<>>, <<>>)

\* a text message that holds white space only
Blank == <<SP>>
BlankFromU1 == Event("message", "text", Blank, U1, <<>>, <<>>)

\* an event of another type, and a message event without a message object
Follow == Event("follow", "none", <<>>, U1, <<>>, <<>>)
NoMessage == Event("message", "none", <<>>, U1, <<>>, <<>>)

\* a text message of a group chat whose source names no user but a group
\* and a room
G1 == <<"G1">>
R1 == <<"R1">>
TextFromGroup == Event("message", "text", Hello, <<>>, G1, R1)

Events == {TextFromU1, Sticker, TextNoSource, BlankFromU1, Follow, NoMessage, TextFromGroup}

EventCode(e) ==
    CASE e = TextFromU1 -> <<0, 0, 0>>
      [] e = TextFromU2 -> <<0, 0, 1>>
      [] e = Sticker -> <<0, 1, 0>>
      [] e = TextNoSource -> <<0, 1, 1>>
      [] e = BlankFromU1 -> <<1, 0, 0>>
      [] e = Follow -> <<1, 0, 1>>
      [] e = NoMessage -> <<1, 1, 0>>
      [] e = TextFromGroup -> <<1, 1, 1>>

\* What the body parses to: "garbage" is no JSON, "null" is the JSON
\* value null, "noevents" a JSON value other than null without an events
\* array, "nobody" a request without a body (req.body is {}).
Body(kind, events) == [kind |-> kind, events |-> events]

RECURSIVE EventsBytes(_)
EventsBytes(events) ==
    IF events = <<>> THEN <<>> ELSE EventCode(Head(events)) \o EventsBytes(Tail(events))

\* The raw text of the body, as req.body holds it.
RawBody(body) ==
    CASE body.kind = "nobody" -> NoBody
      [] body.kind = "garbage" -> StringBody(<<0>>)
      [] body.kind = "null" -> StringBody(<<1>>)
      [] body.kind = "noevents" -> StringBody(<<0, 1>>)
      [] OTHER -> StringBody(<<1, 1>> \o EventsBytes(body.events))

\* The signature LINE computes for a body under a secret.
LineSignature(secret, body) == Base64(HmacSha256(secret, RawBody(body).bytes))

\* Another signature than `sig`.
OtherSignature(sig) == <<sig[1], (sig[2] + 1) % 4>>

\* the filter without the test of the type of the message
IsTextMessage_anyMessage(event) ==
    event.type = "message" /\ event.mtype # "none"

\* the event filter of every revision
IsTextMessage(event) ==
    event.type = "message" /\ event.mtype # "none" /\ event.mtype = "text"

\* source.userId || source.groupId || source.roomId
SourceId(event) == Or(event.userId, Or(event.groupId, event.roomId))

---------------------------------------------------------------------------
(* Kommo (the CRM), as the bridge sees it                                  *)

STATUS_WON == 142
STATUS_LOST == 143
KOMMO_LINE_STATUS_ID == 46001680

NoContact == [id |-> 0, name |-> <<>>, tags |-> <<>>, fields |-> <<>>]

\* GET /contacts?query=q&limit=n: the contacts whose name holds the
\* query, oldest first, at most `limit` of them.
CrmSearchContacts(q, limit) ==
    LET hit(c) == Includes(c.name, q)
        all == SelectSeq(contacts, hit)
    IN  SubSeq(all, 1, IF Len(all) < limit THEN Len(all) ELSE limit)

\* POST /contacts of a CRM that keeps one contact per name: the contact of
\* that name if there is one
CrmNewContact_unique(name, tags) ==
    LET same == {i \in 1..Len(contacts) : contacts[i].name = name} IN
    IF same # {}
    THEN contacts[CHOOSE i \in same : \A k \in same : i <= k]
    ELSE [id |-> Len(contacts) + 1, name |-> name, tags |-> tags, fields |-> <<>>]

\* POST /contacts: the new contact gets the next id.
CrmNewContact(name, tags) ==
    [id |-> Len(contacts) + 1, name |-> name, tags |-> tags, fields |-> <<>>]

\* PATCH /contacts: the name is replaced, the tags are added.
CrmPatched(c, name, addTags) == [c EXCEPT !.name = name, !.tags = c.tags \o addTags]

\* GET /leads?filter[contacts][]=id: the leads of the contact, oldest first.
CrmLeadsOf(contactId) ==
    LET mine(l) == l.contactId = contactId IN SelectSeq(leads, mine)

\* POST /leads: a new lead starts in an open status.
CrmNewLead(name, contactId, tags) ==
    [id |-> Len(leads) + 1, name |-> name, contactId |-> contactId, tags |-> tags,
     status_id |-> KOMMO_LINE_STATUS_ID]

---------------------------------------------------------------------------
(* The handler's state                                                     *)

TaskIds == 1..MaxEvents

\* An async function of the handler, stopped at an await.  pc names the
\* call it awaits; the other fields are its locals and, for the history,
\* what the calls of the current event returned (crmLeads: the leads the
\* CRM held for the contact when the lead search was answered).
IdleTask ==
    [pc |-> "idle", idx |-> 0, uid |-> <<>>, text |-> <<>>, dn |-> <<>>,
     found |-> NoContact, searchOk |-> FALSE, contactId |-> 0, created |-> FALSE,
     leadSearchOk |-> FALSE, leadsFound |-> <<>>, leadId |-> 0, leadCreated |-> FALSE,
     crmLeads |-> <<>>]

NoRequest == [body |-> Body("none", <<>>), sig |-> NoHeader]

EmptyCache == [accessToken |-> 0, expiresAt |-> 0]

\* One entry of the log: an outbound call that was answered (ok or not).
\* ev is the index of the event it belongs to, acked tells whether the
\* delivery had its HTTP response when the call was answered.
Entry(op, ev, ok, str, id, tags, result) ==
    [op |-> op, ev |-> ev, ok |-> ok, str |-> str, id |-> id, tags |-> tags,
     result |-> result, acked |-> res # <<>>]

Respond(status, body) == [status |-> status, body |-> body]

EmptyLog == [t \in TaskIds |-> <<>>]

\* The history record of a finished event.
DoneRecord(task) ==
    [d |-> deliveries, ev |-> task.idx, uid |-> task.uid, searchOk |-> task.searchOk,
     foundId |-> task.found.id, contactId |-> task.contactId, created |-> task.created,
     leadSearchOk |-> task.leadSearchOk, leadsFound |-> task.leadsFound,
     leadId |-> task.leadId, leadCreated |-> task.leadCreated,
     crmLeads |-> task.crmLeads]

\* May one more outbound call fail, after n failures?
MayFail(n) == n < MaxFailures

\* How a call to Kommo or LINE that was sent can end.
Outcomes(n) == {"ok"} \cup (IF MayFail(n) THEN {"error"} ELSE {})

\* A POST that creates a record can also be answered 2xx with a body
\* that is no array (the code reads created[0] only from an array).
CreateOutcomes(n) == Outcomes(n) \cup (IF MayFail(n) THEN {"malformed"} ELSE {})

---------------------------------------------------------------------------
(* Kommo auth                                                              *)

RefreshMarginMs == 60000

\* expires_in of a token response, in seconds
ExpiresIn == {120}

\* getKommoAccessToken ("oauth"): the cached token while more than 60 s of
\* validity remain, else one token request.  Every outcome: whether a
\* token was obtained, the cache afterwards, the calls made, the failures.
getKommoAccessToken(ev) ==
    IF kommoTokenCache.accessToken # 0
       /\ kommoTokenCache.expiresAt - now > RefreshMarginMs
    THEN {[ok |-> TRUE, cache |-> kommoTokenCache, entries |-> <<>>, failed |-> 0]}
    ELSE IF ~KOMMO_CREDENTIALS
    THEN {[ok |-> FALSE, cache |-> kommoTokenCache, entries |-> <<>>, failed |-> 0]}
    ELSE {[ok |-> TRUE,
           cache |-> [accessToken |-> 1, expiresAt |-> now + e * 1000],
           entries |-> <<Entry("tokenFetch", ev, TRUE, <<>>, e, <<>>, <<>>)>>,
           failed |-> 0] : e \in ExpiresIn}
         \cup
         (IF MayFail(failures)
          THEN {[ok |-> FALSE, cache |-> kommoTokenCache,
                 entries |-> <<Entry("tokenFetch", ev, FALSE, <<>>, 0, <<>>, <<>>)>>,
                 failed |-> 1]}
          ELSE {})

\* kommoRequest up to the point where the request is sent: "oauth" gets a
\* token first, the other revisions throw when a credential is missing.
KommoAuth(ev) ==
    IF variant = "oauth" THEN getKommoAccessToken(ev)
    ELSE {[ok |-> KOMMO_CREDENTIALS, cache |-> kommoTokenCache, entries |-> <<>>,
           failed |-> 0]}

\* How a Kommo request ends: "unsent" when kommoRequest threw before
\* sending it.
SendOutcomes(a) == IF a.ok THEN Outcomes(failures + a.failed) ELSE {"unsent"}
SendCreateOutcomes(a) == IF a.ok THEN CreateOutcomes(failures + a.failed) ELSE {"unsent"}

Failed(o) == IF o \in {"error", "malformed"} THEN 1 ELSE 0

---------------------------------------------------------------------------
(* Steps shared by the handlers                                            *)

\* Does this revision's loop start work for the event?  ("apikey" skips a
\* text message without a source id.)
Handled(event) ==
    IsTextMessage(event) /\ (variant = "apikey" => SourceId(event) # <<>>)

RECURSIVE NextHandled(_, _)
\* the index of the first handled event at or after i, 0 if there is none
NextHandled(events, i) ==
    IF i > Len(events) THEN 0
    ELSE IF Handled(events[i]) THEN i
    ELSE NextHandled(events, i + 1)

Unknown == <<"unknown">>

\* the bodies of the responses
BadSignature == "Bad signature"
InvalidJson == "Invalid JSON"
NoEvents == "{ok:true,message:no events}"
OkTrue == "{ok:true}"
ServerError == "Internal Server Error"

\* The locals of the async function as it starts on event j and stops at
\* its first await.
StartTask(events, j) ==
    LET e == events[j] IN
    CASE variant \in {"oauth", "token"} ->
             [IdleTask EXCEPT !.pc = "profile", !.idx = j, !.text = e.text,
                              !.uid = Or(SourceId(e), Unknown)]
      [] variant \in {"leadonly", "leadtag"} ->
             [IdleTask EXCEPT !.pc = "leadCreate", !.idx = j, !.text = e.text,
                              !.uid = Or(SourceId(e), Unknown)]
      [] OTHER ->
             [IdleTask EXCEPT !.pc = "contactSearch", !.idx = j, !.text = e.text,
                              !.uid = SourceId(e)]

\* A step that leaves the task at its next await.
Commit(t, task, entries, nfail, cache) ==
    /\ tasks' = [tasks EXCEPT ![t] = task]
    /\ log' = [log EXCEPT ![t] = @ \o entries]
    /\ res' = res
    /\ failures' = failures + nfail
    /\ kommoTokenCache' = cache
    /\ done' = done

\* Proceed without the try/catch around the event: a failed call ends the
\* handler with a 500
Proceed_uncaught(t, task, entries, nfail, cache) ==
    LET j == NextHandled(req.body.events, task.idx + 1) IN
    /\ done' = done \cup {DoneRecord(task)}
    /\ failures' = failures + nfail
    /\ kommoTokenCache' = cache
    /\ log' = [log EXCEPT ![t] = @ \o entries]
    /\ IF variant = "apikey"
       THEN /\ tasks' = [tasks EXCEPT ![t] = IdleTask]
            /\ res' = res
       ELSE IF nfail > 0
       THEN /\ tasks' = [tasks EXCEPT ![t] = IdleTask]
            /\ res' = Append(res, Respond(500, ServerError))
       ELSE IF j = 0
       THEN /\ tasks' = [tasks EXCEPT ![t] = IdleTask]
            /\ res' = Append(res, Respond(200, OkTrue))
       ELSE /\ tasks' = [tasks EXCEPT ![t] = StartTask(req.body.events, j)]
            /\ res' = res

\* The step that ends an event.  The loop of an async handler goes on to
\* the next handled event or, after the last, sends the response; a
\* detached task of "apikey" just ends.
Proceed(t, task, entries, nfail, cache) ==
    LET j == NextHandled(req.body.events, task.idx + 1) IN
    /\ done' = done \cup {DoneRecord(task)}
    /\ failures' = failures + nfail
    /\ kommoTokenCache' = cache
    /\ log' = [log EXCEPT ![t] = @ \o entries]
    /\ IF variant = "apikey"
       THEN /\ tasks' = [tasks EXCEPT ![t] = IdleTask]
            /\ res' = res
       ELSE IF j = 0
       THEN /\ tasks' = [tasks EXCEPT ![t] = IdleTask]
            /\ res' = Append(res, Respond(200, OkTrue))
       ELSE /\ tasks' = [tasks EXCEPT ![t] = StartTask(req.body.events, j)]
            /\ res' = res

\* The entry of a Kommo request, if it was sent.
Sent(o, entry) == IF o = "unsent" THEN <<>> ELSE <<entry>>

---------------------------------------------------------------------------
(* LINE profile                                                            *)

KnownUsers == {U1, U2}

DisplayNameOf(uid) == IF uid = U1 THEN <<"Al">> ELSE <<"Bo">>

\* LINE answers 404 for an id it does not know.
ProfileOutcomes(uid) == IF uid \in KnownUsers THEN Outcomes(failures) ELSE {"notfound"}

\* await getLineProfile(lineUserId): in the loop of "oauth" and "token",
\* before the contact search; in createContactForLineUser of "apikey",
\* before the POST.
getLineProfile(t) ==
    LET cur == tasks[t]
        pc == IF variant = "apikey" THEN "contactCreate" ELSE "contactSearch"
    IN
    /\ variant \in {"oauth", "token", "apikey"}
    /\ cur.pc = "profile"
    /\ IF ~LINE_CHANNEL_ACCESS_TOKEN
       THEN Commit(t, [cur EXCEPT !.pc = pc], <<>>, 0, kommoTokenCache)
       ELSE \E o \in ProfileOutcomes(cur.uid) :
              Commit(t,
                     [cur EXCEPT !.pc = pc,
                                 !.dn = IF o = "ok" THEN DisplayNameOf(cur.uid) ELSE <<>>],
                     <<Entry("profile", cur.idx, o = "ok", cur.uid, 0, <<>>, <<>>)>>,
                     Failed(o), kommoTokenCache)
    /\ UNCHANGED <<config, fn, crm, now, req, deliveries, eventsSeen>>

---------------------------------------------------------------------------
(* ensureKommoContact ("oauth", "token")                                   *)

HasTag(contact, tag) == \E i \in 1..Len(contact.tags) : contact.tags[i] = tag

\* const needUpdateName = !existingName || !existingName.includes(lineUserId)
NeedUpdateName(existingName, lineUserId) ==
    existingName = <<>> \/ ~Includes(existingName, lineUserId)

NeedPatch(contact, lineUserId) ==
    \/ NeedUpdateName(contact.name, lineUserId)
    \/ ~HasTag(contact, GenericTag)
    \/ ~HasTag(contact, UidTag(lineUserId))

\* the tags of the create payload
NewContactTags(lineUserId) == <<GenericTag, UidTag(lineUserId)>>

\* FirstContact that never reuses what the search returned
FirstContact_none(items) == NoContact

\* if (items.length > 0) contact = items[0], else null
FirstContact(items) == IF Len(items) > 0 THEN items[1] ELSE NoContact

\* the search without its try/catch: a failed search ends the work for the
\* event in the catch of the loop
ensureKommoContact_search_throws(t) ==
    LET cur == tasks[t] IN
    /\ variant \in {"oauth", "token"}
    /\ cur.pc = "contactSearch"
    /\ \E a \in KommoAuth(cur.idx) : \E o \in SendOutcomes(a) :
         LET items == IF o = "ok" THEN CrmSearchContacts(cur.uid, 50) ELSE <<>>
             contact == FirstContact(items)
             pc == IF contact.id = 0 THEN "contactCreate"
                   ELSE IF NeedPatch(contact, cur.uid) THEN "contactPatch"
                   ELSE "leadSearch"
             entries == a.entries \o Sent(o, Entry("contactSearch", cur.idx, o = "ok",
                                                   cur.uid, contact.id, <<>>, <<>>))
         IN  IF o = "ok"
             THEN Commit(t,
                         [cur EXCEPT !.pc = pc, !.found = contact, !.searchOk = TRUE,
                                     !.contactId = contact.id],
                         entries, a.failed, a.cache)
             ELSE Proceed(t, cur, entries, a.failed + Failed(o), a.cache)
    /\ UNCHANGED <<config, fn, crm, now, req, deliveries, eventsSeen>>

\* the search and the choice between reuse, patch and create
ensureKommoContact_search(t) ==
    LET cur == tasks[t] IN
    /\ variant \in {"oauth", "token"}
    /\ cur.pc = "contactSearch"
    /\ \E a \in KommoAuth(cur.idx) : \E o \in SendOutcomes(a) :
         LET items == IF o = "ok" THEN CrmSearchContacts(cur.uid, 50) ELSE <<>>
             contact == FirstContact(items)
             pc == IF contact.id = 0 THEN "contactCreate"
                   ELSE IF NeedPatch(contact, cur.uid) THEN "contactPatch"
                   ELSE "leadSearch"
         IN  Commit(t,
                    [cur EXCEPT !.pc = pc, !.found = contact, !.searchOk = (o = "ok"),
                                !.contactId = contact.id],
                    a.entries \o Sent(o, Entry("contactSearch", cur.idx, o = "ok",
                                               cur.uid, contact.id, <<>>, <<>>)),
                    a.failed + Failed(o), a.cache)
    /\ UNCHANGED <<config, fn, crm, now, req, deliveries, eventsSeen>>

\* the PATCH that backfills the name and the tags of a found contact
ensureKommoContact_patch(t) ==
    LET cur == tasks[t]
        c == cur.found
        name == IF NeedUpdateName(c.name, cur.uid)
                THEN makeLineContactName(cur.uid, cur.dn) ELSE c.name
        addTags == (IF HasTag(c, GenericTag) THEN <<>> ELSE <<GenericTag>>)
                   \o (IF HasTag(c, UidTag(cur.uid)) THEN <<>> ELSE <<UidTag(cur.uid)>>)
    IN
    /\ variant \in {"oauth", "token"}
    /\ cur.pc = "contactPatch"
    /\ \E a \in KommoAuth(cur.idx) : \E o \in SendOutcomes(a) :
         /\ Commit(t, [cur EXCEPT !.pc = "leadSearch"],
                   a.entries \o Sent(o, Entry("contactPatch", cur.idx, o = "ok",
                                              name, c.id, addTags, <<>>)),
                   a.failed + Failed(o), a.cache)
         /\ contacts' = IF o = "ok"
                        THEN [contacts EXCEPT ![c.id] = CrmPatched(contacts[c.id], name, addTags)]
                        ELSE contacts
    /\ UNCHANGED <<config, fn, leads, notes, now, req, deliveries, eventsSeen>>

\* the POST of a new contact
ensureKommoContact_create(t) ==
    LET cur == tasks[t]
        name == makeLineContactName(cur.uid, cur.dn)
        tags == NewContactTags(cur.uid)
        new == CrmNewContact(name, tags)
    IN
    /\ variant \in {"oauth", "token"}
    /\ cur.pc = "contactCreate"
    /\ \E a \in KommoAuth(cur.idx) : \E o \in SendCreateOutcomes(a) :
         /\ Commit(t,
                   [cur EXCEPT !.pc = "leadSearch", !.created = (o # "unsent"),
                               !.contactId = IF o = "ok" THEN new.id ELSE 0],
                   a.entries \o Sent(o, Entry("contactCreate", cur.idx, o = "ok", name,
                                              IF o = "error" THEN 0 ELSE new.id, tags, <<>>)),
                   a.failed + Failed(o), a.cache)
         /\ contacts' = IF o \in {"ok", "malformed"} THEN Append(contacts, new) ELSE contacts
    /\ UNCHANGED <<config, fn, leads, notes, now, req, deliveries, eventsSeen>>

---------------------------------------------------------------------------
(* findOrCreateLeadForContact ("oauth", "token")                           *)

Terminal(lead) == lead.status_id = STATUS_WON \/ lead.status_id = STATUS_LOST

RECURSIVE FirstActive(_)
\* leads.find((l) => l.status_id !== 142 && l.status_id !== 143) || null
FirstActive(found) ==
    IF found = <<>> THEN 0
    ELSE IF ~Terminal(Head(found)) THEN Head(found).id
    ELSE FirstActive(Tail(found))

Limit(seq, n) == SubSeq(seq, 1, IF Len(seq) < n THEN Len(seq) ELSE n)

findOrCreateLeadForContact_search(t) ==
    LET cur == tasks[t] IN
    /\ variant \in {"oauth", "token"}
    /\ cur.pc = "leadSearch"
    /\ IF cur.contactId = 0
       THEN Commit(t, [cur EXCEPT !.pc = "note"], <<>>, 0, kommoTokenCache)
       ELSE \E a \in KommoAuth(cur.idx) : \E o \in SendOutcomes(a) :
              LET found == IF o = "ok" THEN Limit(CrmLeadsOf(cur.contactId), 50) ELSE <<>>
                  active == FirstActive(found)
              IN  Commit(t,
                         [cur EXCEPT !.pc = IF active # 0 THEN "note" ELSE "leadCreate",
                                     !.leadSearchOk = (o = "ok"), !.leadsFound = found,
                                     !.leadId = active,
                                     !.crmLeads = CrmLeadsOf(cur.contactId)],
                         a.entries \o Sent(o, Entry("leadSearch", cur.idx, o = "ok", <<>>,
                                                    cur.contactId, <<>>, found)),
                         a.failed + Failed(o), a.cache)
    /\ UNCHANGED <<config, fn, crm, now, req, deliveries, eventsSeen>>

findOrCreateLeadForContact_create(t) ==
    LET cur == tasks[t]
        new == CrmNewLead(makeLineLeadName(cur.dn), cur.contactId, <<GenericTag>>)
    IN
    /\ variant \in {"oauth", "token"}
    /\ cur.pc = "leadCreate"
    /\ \E a \in KommoAuth(cur.idx) : \E o \in SendCreateOutcomes(a) :
         /\ Commit(t,
                   [cur EXCEPT !.pc = "note", !.leadCreated = (o # "unsent"),
                               !.leadId = IF o = "ok" THEN new.id ELSE 0],
                   a.entries \o Sent(o, Entry("leadCreate", cur.idx, o = "ok", new.name,
                                              cur.contactId, new.tags,
                                              IF o = "error" THEN <<>> ELSE <<new>>)),
                   a.failed + Failed(o), a.cache)
         /\ leads' = IF o \in {"ok", "malformed"} THEN Append(leads, new) ELSE leads
    /\ UNCHANGED <<config, fn, contacts, notes, now, req, deliveries, eventsSeen>>

---------------------------------------------------------------------------
(* addNoteToLead ("oauth", "token")                                        *)

\* const noteText = `From LINE (${prettyName}):\n${text}`
NoteText(displayName, lineUserId, text) ==
    <<"From LINE (">> \o Or(displayName, lineUserId) \o <<"):", "\n">> \o text

addNoteToLead(t) ==
    LET cur == tasks[t]
        text == NoteText(cur.dn, cur.uid, cur.text)
    IN
    /\ variant \in {"oauth", "token"}
    /\ cur.pc = "note"
    /\ IF cur.leadId = 0 \/ text = <<>>
       THEN Proceed(t, cur, <<>>, 0, kommoTokenCache) /\ notes' = notes
       ELSE \E a \in KommoAuth(cur.idx) : \E o \in SendOutcomes(a) :
              /\ Proceed(t, cur,
                         a.entries \o Sent(o, Entry("noteCreate", cur.idx, o = "ok", text,
                                                    cur.leadId, <<>>, <<>>)),
                         a.failed + Failed(o), a.cache)
              /\ notes' = IF o = "ok"
                          THEN Append(notes, [leadId |-> cur.leadId, text |-> text])
                          ELSE notes
    /\ UNCHANGED <<config, fn, contacts, leads, now, req, deliveries, eventsSeen>>

---------------------------------------------------------------------------
(* handleIncomingLineText ("apikey")                                       *)

\* `${displayName} (LINE ${lineUserId})` or `LINE ${lineUserId}`
ContactNameApikey(lineUserId, displayName) ==
    IF displayName # <<>>
    THEN displayName \o <<SP, "(", "LINE", SP>> \o lineUserId \o <<")">>
    ELSE <<"LINE", SP>> \o lineUserId

Last(seq) == IF seq = <<>> THEN <<>> ELSE <<seq[Len(seq)]>>

findContactByLineUserId(t) ==
    LET cur == tasks[t] IN
    /\ variant = "apikey"
    /\ cur.pc = "contactSearch"
    /\ \E o \in Outcomes(failures) :
         LET items == IF o = "ok" THEN CrmSearchContacts(cur.uid, 1) ELSE <<>>
             found == FirstContact(items)
         IN  Commit(t,
                    [cur EXCEPT !.pc = IF found.id # 0 THEN "leadSearch" ELSE "profile",
                                !.found = found, !.searchOk = (o = "ok"),
                                !.contactId = found.id],
                    <<Entry("contactSearch", cur.idx, o = "ok", cur.uid, found.id, <<>>, <<>>)>>,
                    Failed(o), kommoTokenCache)
    /\ UNCHANGED <<config, fn, crm, now, req, deliveries, eventsSeen>>

\* the POST of createContactForLineUser; without a contact id the task ends
createContactForLineUser(t) ==
    LET cur == tasks[t]
        new == CrmNewContact(ContactNameApikey(cur.uid, cur.dn), <<GenericTag>>)
    IN
    /\ variant = "apikey"
    /\ cur.pc = "contactCreate"
    /\ \E o \in CreateOutcomes(failures) :
         LET entries == <<Entry("contactCreate", cur.idx, o = "ok", new.name,
                                IF o = "error" THEN 0 ELSE new.id, new.tags, <<>>)>>
             nxt == [cur EXCEPT !.created = TRUE,
                                !.contactId = IF o = "ok" THEN new.id ELSE 0]
         IN  /\ IF o = "ok"
                THEN Commit(t, [nxt EXCEPT !.pc = "leadSearch"], entries, 0, kommoTokenCache)
                ELSE Proceed(t, nxt, entries, Failed(o), kommoTokenCache)
             /\ contacts' = IF o \in {"ok", "malformed"} THEN Append(contacts, new) ELSE contacts
    /\ UNCHANGED <<config, fn, leads, notes, now, req, deliveries, eventsSeen>>

\* order[created_at]=desc&limit=1: the newest lead of the contact
findLastLeadForContact(t) ==
    LET cur == tasks[t] IN
    /\ variant = "apikey"
    /\ cur.pc = "leadSearch"
    /\ \E o \in Outcomes(failures) :
         LET found == IF o = "ok" THEN Last(CrmLeadsOf(cur.contactId)) ELSE <<>>
             leadId == IF found = <<>> THEN 0 ELSE found[1].id
         IN  Commit(t,
                    [cur EXCEPT !.pc = IF leadId # 0 THEN "note" ELSE "leadCreate",
                                !.leadSearchOk = (o = "ok"), !.leadsFound = found,
                                !.leadId = leadId,
                                !.crmLeads = CrmLeadsOf(cur.contactId)],
                    <<Entry("leadSearch", cur.idx, o = "ok", <<>>, cur.contactId, <<>>, found)>>,
                    Failed(o), kommoTokenCache)
    /\ UNCHANGED <<config, fn, crm, now, req, deliveries, eventsSeen>>

createLeadForLineMessage(t) ==
    LET cur == tasks[t]
        leadName == Limit(Or(Trim(cur.text), <<"New request from LINE">>), 250)
        new == CrmNewLead(leadName, cur.contactId, <<GenericTag>>)
    IN
    /\ variant = "apikey"
    /\ cur.pc = "leadCreate"
    /\ \E o \in CreateOutcomes(failures) :
         LET entries == <<Entry("leadCreate", cur.idx, o = "ok", new.name, cur.contactId,
                                new.tags, IF o = "error" THEN <<>> ELSE <<new>>)>>
             nxt == [cur EXCEPT !.leadCreated = TRUE,
                                !.leadId = IF o = "ok" THEN new.id ELSE 0]
         IN  /\ IF o = "ok"
                THEN Commit(t, [nxt EXCEPT !.pc = "note"], entries, 0, kommoTokenCache)
                ELSE Proceed(t, nxt, entries, Failed(o), kommoTokenCache)
             /\ leads' = IF o \in {"ok", "malformed"} THEN Append(leads, new) ELSE leads
    /\ UNCHANGED <<config, fn, contacts, notes, now, req, deliveries, eventsSeen>>

\* `LINE message (${lineUserId}): ${trimmed}`
NoteTextApikey(lineUserId, trimmed) ==
    <<"LINE message">>
    \o (IF lineUserId # <<>> THEN <<SP, "(">> \o lineUserId \o <<")">> ELSE <<>>)
    \o <<":", SP>> \o trimmed

addIncomingMessageNoteToLead(t) ==
    LET cur == tasks[t]
        trimmed == Trim(cur.text)
        text == NoteTextApikey(cur.uid, trimmed)
    IN
    /\ variant = "apikey"
    /\ cur.pc = "note"
    /\ IF trimmed = <<>>
       THEN Proceed(t, cur, <<>>, 0, kommoTokenCache) /\ notes' = notes
       ELSE \E o \in Outcomes(failures) :
              /\ Proceed(t, cur,
                         <<Entry("noteCreate", cur.idx, o = "ok", text, cur.leadId, <<>>, <<>>)>>,
                         Failed(o), kommoTokenCache)
              /\ notes' = IF o = "ok"
                          THEN Append(notes, [leadId |-> cur.leadId, text |-> text])
                          ELSE notes
    /\ UNCHANGED <<config, fn, contacts, leads, now, req, deliveries, eventsSeen>>

---------------------------------------------------------------------------
(* createKommoContactForLineUser ("byname")                                *)

\* the search by the name "LINE <userId>"
findKommoContactIdByLineUserId(t) ==
    LET cur == tasks[t] IN
    /\ variant = "byname"
    /\ cur.pc = "contactSearch"
    /\ IF cur.uid = <<>>
       THEN Commit(t, [cur EXCEPT !.pc = "leadCreate"], <<>>, 0, kommoTokenCache)
       ELSE \E a \in KommoAuth(cur.idx) : \E o \in SendOutcomes(a) :
              LET query == <<"LINE", SP>> \o cur.uid
                  items == IF o = "ok" THEN CrmSearchContacts(query, 1) ELSE <<>>
                  found == FirstContact(items)
              IN  Commit(t,
                         [cur EXCEPT !.pc = IF found.id # 0 THEN "leadCreate"
                                            ELSE "contactCreate",
                                     !.found = found, !.searchOk = (o = "ok"),
                                     !.contactId = found.id],
                         Sent(o, Entry("contactSearch", cur.idx, o = "ok", query, found.id,
                                       <<>>, <<>>)),
                         Failed(o), kommoTokenCache)
    /\ UNCHANGED <<config, fn, crm, now, req, deliveries, eventsSeen>>

\* the POST of the new contact "LINE <userId>"
createKommoContactForLineUser(t) ==
    LET cur == tasks[t]
        new == CrmNewContact(<<"LINE", SP>> \o cur.uid, <<GenericTag>>)
    IN
    /\ variant = "byname"
    /\ cur.pc = "contactCreate"
    /\ \E a \in KommoAuth(cur.idx) : \E o \in SendCreateOutcomes(a) :
         /\ Commit(t,
                   [cur EXCEPT !.pc = "leadCreate", !.created = (o # "unsent"),
                               !.contactId = IF o = "ok" THEN new.id ELSE 0],
                   Sent(o, Entry("contactCreate", cur.idx, o = "ok", new.name,
                                 IF o = "error" THEN 0 ELSE new.id, new.tags, <<>>)),
                   Failed(o), kommoTokenCache)
         /\ contacts' = IF o \in {"ok", "malformed"} THEN Append(contacts, new) ELSE contacts
    /\ UNCHANGED <<config, fn, leads, notes, now, req, deliveries, eventsSeen>>

---------------------------------------------------------------------------
(* createKommoLeadFromLine ("byname", "leadonly", "leadtag")               *)

\* the name of the lead, by revision
LeadNameFromLine(lineUserId, text) ==
    IF variant = "byname"
    THEN Or(Limit(Trim(text), 200), <<"New message from LINE">>)
    ELSE Limit(<<"LINE", SP>> \o lineUserId \o <<":", SP>> \o text, 250)

\* the tags of the lead, by revision
LeadTagsFromLine(lineUserId) ==
    CASE variant = "byname" -> <<GenericTag>>
      [] variant = "leadtag" -> <<GenericTag, UidTag(lineUserId)>>
      [] OTHER -> <<>>

createKommoLeadFromLine(t) ==
    LET cur == tasks[t]
        new == CrmNewLead(LeadNameFromLine(cur.uid, cur.text), cur.contactId,
                          LeadTagsFromLine(cur.uid))
    IN
    /\ variant \in {"byname", "leadonly", "leadtag"}
    /\ cur.pc = "leadCreate"
    /\ IF ~KOMMO_CREDENTIALS
       THEN Proceed(t, cur, <<>>, 0, kommoTokenCache) /\ leads' = leads
       ELSE \E o \in CreateOutcomes(failures) :
              /\ Proceed(t,
                         [cur EXCEPT !.leadCreated = TRUE,
                                     !.leadId = IF o = "ok" THEN new.id ELSE 0],
                         <<Entry("leadCreate", cur.idx, o = "ok", new.name, cur.contactId,
                                 new.tags, IF o = "error" THEN <<>> ELSE <<new>>)>>,
                         Failed(o), kommoTokenCache)
              /\ leads' = IF o \in {"ok", "malformed"} THEN Append(leads, new) ELSE leads
    /\ UNCHANGED <<config, fn, contacts, notes, now, req, deliveries, eventsSeen>>

---------------------------------------------------------------------------
(* POST /line/webhook                                                      *)

\* The bodies a delivery may have, with at most n events.
Bodies(n) ==
    {Body(k, <<>>) : k \in {"garbage", "null", "noevents", "nobody"}}
    \cup {Body("events", es) : es \in SeqsUpTo(Events, n)}

SignatureKinds == {"absent", "valid", "invalid"}

\* The x-line-signature header of a delivery.
SignatureOf(kind, body) ==
    CASE kind = "absent" -> NoHeader
      [] kind = "valid" -> Header(LineSignature(LINE_CHANNEL_SECRET, body))
      [] OTHER -> Header(OtherSignature(LineSignature(LINE_CHANNEL_SECRET, body)))

\* if (!verifyLineSignature(req.body, signature)) return res.status(401)...
\* "token" calls the function and drops its result.
Rejects(rawBody, signature) ==
    IF variant = "token" THEN FALSE ELSE ~VerifySignature(rawBody, signature)

\* "apikey": one detached handleIncomingLineText per handled event, each
\* run up to its first await (or to its return, without Kommo credentials).
Spawn(events) ==
    [t \in TaskIds |->
        IF t <= Len(events) /\ Handled(events[t]) /\ KOMMO_CREDENTIALS
        THEN StartTask(events, t) ELSE IdleTask]

\* WithoutEvents with every body without an events array answered 400
WithoutEvents_all400(body) == {<<Respond(400, InvalidJson)>>}

\* What the handler answers to a body that yields no events array:
\* JSON.parse throws (400), data.events throws on null, or the value has
\* no events array ("no events").  On null a synchronous handler gets
\* Express's 500, an async one a rejected promise, which Express 5 answers
\* with 500 and Express 4 does not answer.
WithoutEvents(body) ==
    CASE body.kind \in {"garbage", "nobody"} -> {<<Respond(400, InvalidJson)>>}
      [] body.kind = "null" ->
             (IF variant = "apikey" THEN {} ELSE {<<>>}) \cup {<<Respond(500, ServerError)>>}
      [] OTHER -> {<<Respond(200, NoEvents)>>}

\* The handler from the arrival of the request to its first await or to
\* its response.
LineWebhook ==
    /\ \A t \in TaskIds : tasks[t].pc = "idle"
    /\ deliveries < MaxDeliveries
    /\ \E body \in Bodies(MaxEvents - eventsSeen), kind \in SignatureKinds :
         LET signature == SignatureOf(kind, body)
             first == NextHandled(body.events, 1)
         IN
         /\ req' = [body |-> body, sig |-> signature]
         /\ deliveries' = deliveries + 1
         /\ eventsSeen' = eventsSeen + Len(body.events)
         /\ log' = EmptyLog
         /\ IF Rejects(RawBody(body), signature)
            THEN res' = <<Respond(401, BadSignature)>> /\ tasks' = tasks
            ELSE IF body.kind # "events"
            THEN res' \in WithoutEvents(body) /\ tasks' = tasks
            ELSE IF variant = "apikey"
            THEN res' = <<Respond(200, OkTrue)>> /\ tasks' = Spawn(body.events)
            ELSE IF first = 0
            THEN res' = <<Respond(200, OkTrue)>> /\ tasks' = tasks
            ELSE /\ res' = <<>>
                 /\ tasks' = [tasks EXCEPT ![1] = StartTask(body.events, first)]
    /\ UNCHANGED <<config, fn, crm, kommoTokenCache, now, done, failures>>

---------------------------------------------------------------------------
(* The environment                                                         *)

TickMs == RefreshMarginMs

\* Time passes between two deliveries.
Tick ==
    /\ variant = "oauth"
    /\ \A t \in TaskIds : tasks[t].pc = "idle"
    /\ deliveries < MaxDeliveries
    /\ kommoTokenCache # EmptyCache
    /\ now < MaxTicks * TickMs
    /\ now' = now + TickMs
    /\ UNCHANGED <<config, fn, crm, kommoTokenCache, req, tasks, log, res, done, counters>>

\* An operator of the CRM closes a lead as won or lost, between two
\* deliveries.
CloseLead ==
    /\ \A t \in TaskIds : tasks[t].pc = "idle"
    /\ deliveries < MaxDeliveries
    /\ \E i \in 1..Len(leads), st \in {STATUS_WON, STATUS_LOST} :
         /\ ~Terminal(leads[i])
         /\ leads' = [leads EXCEPT ![i].status_id = st]
    /\ UNCHANGED <<config, fn, contacts, notes, kommoTokenCache, now, req, tasks, log, res,
                   done, counters>>

---------------------------------------------------------------------------
(* Specification of the LINE -> Kommo direction                            *)

\* a contact an operator entered by hand, without tags
LegacyContact == [id |-> 1, name |-> <<"LINE", SP>> \o U1, tags |-> <<>>, fields |-> <<>>]

NoFn == [op |-> "none"]

\* The environments of the process: everything set, or one setting missing.
Configs ==
    {[secret |-> <<1>>, token |-> TRUE, kommo |-> TRUE],
     [secret |-> <<>>, token |-> TRUE, kommo |-> TRUE],
     [secret |-> <<1>>, token |-> FALSE, kommo |-> TRUE],
     [secret |-> <<1>>, token |-> TRUE, kommo |-> FALSE]}

Init ==
    /\ variant \in Variants
    /\ \E c \in Configs :
         /\ LINE_CHANNEL_SECRET = c.secret
         /\ LINE_CHANNEL_ACCESS_TOKEN = c.token
         /\ KOMMO_CREDENTIALS = c.kommo
    /\ fn = NoFn
    /\ contacts \in {<<>>, <<LegacyContact>>}
    /\ leads = <<>>
    /\ notes = <<>>
    /\ kommoTokenCache = EmptyCache
    /\ now = 0
    /\ req = NoRequest
    /\ tasks = [t \in TaskIds |-> IdleTask]
    /\ log = EmptyLog
    /\ res = <<>>
    /\ done = {}
    /\ deliveries = 0
    /\ eventsSeen = 0
    /\ failures = 0

Step(t) ==
    \/ getLineProfile(t)
    \/ ensureKommoContact_search(t)
    \/ ensureKommoContact_patch(t)
    \/ ensureKommoContact_create(t)
    \/ findOrCreateLeadForContact_search(t)
    \/ findOrCreateLeadForContact_create(t)
    \/ addNoteToLead(t)
    \/ findContactByLineUserId(t)
    \/ createContactForLineUser(t)
    \/ findLastLeadForContact(t)
    \/ createLeadForLineMessage(t)
    \/ addIncomingMessageNoteToLead(t)
    \/ findKommoContactIdByLineUserId(t)
    \/ createKommoContactForLineUser(t)
    \/ createKommoLeadFromLine(t)

Next ==
    \/ LineWebhook
    \/ \E t \in TaskIds : Step(t)
    \/ Tick
    \/ CloseLead

Spec == Init /\ [][Next]_vars

\* The same with every outbound call answered in the end: axios gives up
\* after its timeout (10 s for LINE and the token, 15 s for Kommo).
SpecLive == Spec /\ \A t \in TaskIds : WF_vars(Step(t))

---------------------------------------------------------------------------
(* Reverse lookup: which LINE user a reply goes to                         *)

Min(S) == CHOOSE x \in S : \A y \in S : x <= y
Max(S) == CHOOSE x \in S : \A y \in S : y <= x

\* the end of the longest run of atoms in `set` that starts at i (i - 1 if
\* the run is empty)
RunWhileIn(str, i, set) ==
    Max({j \in (i - 1)..Len(str) : \A k \in i..j : str[k] \in set})

\* the same for atoms outside `set`
RunWhileNotIn(str, i, set) ==
    Max({j \in (i - 1)..Len(str) : \A k \in i..j : str[k] \notin set})

\* atoms that are no letters or digits
Symbols == {"(", ")", ":", "[LINE]", "LINE_UID_"}

NonAlnum == Whitespace \cup Symbols

\* /LINE\s+(<capture>)/ tried at position i: the capture is the longest
\* run of atoms outside `stop` after the white space
LineMatchAt(str, i, stop) ==
    IF i < Len(str) /\ str[i] = "LINE" /\ str[i + 1] \in Whitespace
    THEN LET from == RunWhileIn(str, i + 1, Whitespace) + 1
         IN  SubSeq(str, from, RunWhileNotIn(str, from, stop))
    ELSE <<>>

\* the capture of the leftmost match, <<>> without a match
FirstLineMatch(str, stop) ==
    LET hits == {i \in 1..Len(str) : LineMatchAt(str, i, stop) # <<>>}
    IN  IF hits = {} THEN <<>> ELSE LineMatchAt(str, Min(hits), stop)

\* /LINE\s+([^:\s]+)/.exec(leadName) ("apikey")
LeadNameIdApikey(leadName) == FirstLineMatch(leadName, Whitespace \cup {":"})

\* /LINE\s+([0-9a-zA-Z]+)/.exec(name) ("apikey")
ContactNameIdApikey(name) == FirstLineMatch(name, NonAlnum)

\* /^LINE\s+([^:]+):/.exec(leadName) ("byname", "leadonly", "leadtag"):
\* the capture runs to the first colon, which must be there; it may start
\* with the last white space when nothing else precedes the colon
extractLineUserIdFromLeadName(leadName) ==
    IF Len(leadName) >= 2 /\ leadName[1] = "LINE" /\ leadName[2] \in Whitespace
    THEN LET ws == RunWhileIn(leadName, 2, Whitespace)
             upto == RunWhileNotIn(leadName, ws + 1, {":"})
         IN  IF upto = Len(leadName) THEN <<>>
             ELSE IF upto > ws THEN SubSeq(leadName, ws + 1, upto)
             ELSE IF ws > 2 THEN <<leadName[ws]>>
             ELSE <<>>
    ELSE <<>>

\* /^LINE\s+(\S+)/.exec(contact.name) ("byname")
extractLineUserIdFromContact_part000(contact) ==
    IF contact.id = 0 THEN <<>> ELSE
    IF Len(contact.name) >= 1 THEN LineMatchAt(contact.name, 1, Whitespace) ELSE <<>>

\* tags.find(t => t.name.startsWith("LINE_UID_")), then
\* name.replace("LINE_UID_", "") ("oauth", "token")
extractLineUserIdFromContact(contact) ==
    LET hits == {i \in 1..Len(contact.tags) :
                    contact.tags[i] # <<>> /\ contact.tags[i][1] = "LINE_UID_"}
    IN  IF hits = {} THEN <<>> ELSE Tail(contact.tags[Min(hits)])

\* the first tag of the webhook body that matches /^LINE_UID_(.+)$/
\* ("leadtag")
LineUserIdFromTags(tagNames) ==
    LET hits == {i \in 1..Len(tagNames) :
                    Len(tagNames[i]) >= 2 /\ tagNames[i][1] = "LINE_UID_"}
    IN  IF hits = {} THEN <<>> ELSE Tail(tagNames[Min(hits)])

\* strings that look like a LINE user id: /^U[0-9a-f]{16,}$/i
UserIdAtoms == {"U1", "U2"}

LooksLikeUserId(str) == Len(Trim(str)) = 1 /\ Trim(str)[1] \in UserIdAtoms

\* deepSearchLineUserId ("leadonly", "leadtag"): the first string of the
\* object, in key order, that is a user id as a whole
deepSearchLineUserId(contact) ==
    LET strings == <<contact.name>> \o contact.fields \o contact.tags
        hits == {i \in 1..Len(strings) : LooksLikeUserId(strings[i])}
    IN  IF contact.id = 0 \/ hits = {} THEN <<>> ELSE Trim(strings[Min(hits)])

\* the id the handler reads from the webhook body alone
LineUserIdFromBody(r) ==
    CASE variant = "apikey" -> LeadNameIdApikey(r.leadName)
      [] variant \in {"byname", "leadonly"} -> extractLineUserIdFromLeadName(r.leadName)
      [] variant = "leadtag" ->
             Or(LineUserIdFromTags(r.tags), extractLineUserIdFromLeadName(r.leadName))
      [] OTHER -> <<>>

\* the id the handler reads from the contact it fetched
LineUserIdFromContact(contact) ==
    CASE variant \in {"oauth", "token"} -> extractLineUserIdFromContact(contact)
      [] variant = "apikey" -> ContactNameIdApikey(contact.name)
      [] variant = "byname" -> extractLineUserIdFromContact_part000(contact)
      [] OTHER -> deepSearchLineUserId(contact)

---------------------------------------------------------------------------
(* ALL /kommo/webhook                                                      *)

\* the bodies of the responses
Ended == ""
Received == "{ok:true,message:kommo webhook received}"
SkippedNoText == "{ok:true,skipped:true,reason:no reply text}"
SkippedNoUser == "{ok:true,skipped:true,reason:no lineUserId}"
SentTrue == "{ok:true,sent:true}"

Hi == <<"Hi">>

KommoRequest(method, leadId, leadName, contactId, tags, text) ==
    [method |-> method, leadId |-> leadId, leadName |-> leadName,
     contactId |-> contactId, tags |-> tags, text |-> text]

\* the lead names a webhook may carry
LeadNames == {<<>>, <<"LINE", SP>> \o U2 \o <<":", SP>> \o Hello, <<"[LINE]", SP, "Al">>}

\* the reply text of the body: none, white space only, or a text
ReplyTexts == {<<>>, Blank, Hi}

KommoRequests ==
    {KommoRequest(m, l, n, c, g, x) :
        m \in {"POST", "OPTIONS"}, l \in {0, 1}, n \in LeadNames, c \in {0, 1},
        g \in {<<>>, <<GenericTag, UidTag(U2)>>}, x \in ReplyTexts}

\* these revisions answer OPTIONS before they read the body
AnswersPreflightFirst == variant \in {"apikey", "byname"}

\* these revisions start sendLineMessage and answer without awaiting it
PushDetached == variant \in {"oauth", "token", "leadonly", "leadtag"}

\* the text pushed to LINE
ReplyText(r) ==
    CASE variant \in {"oauth", "token"} -> Trim(r.text)
      [] variant = "apikey" -> Or(Trim(r.text), <<"New reply from Kommo.">>)
      [] OTHER -> <<"Test reply from Kommo">>

\* res.json({ ok: true, sent: true, lineUserId, text: finalText })
SentTo(lineUserId, text) ==
    [status |-> 200, body |-> SentTrue, lineUserId |-> lineUserId, text |-> text]

\* res.json({ ok: true, message: "kommo webhook received", leadId,
\* contactId, sentToLine: Boolean(lineUserId) }) ("apikey")
ReceivedApikey(lineUserId) ==
    [status |-> 200, body |-> Received, sentToLine |-> lineUserId # <<>>]

\* ReplyResponse with the answer of the handler's catch block when no
\* user id was resolved
ReplyResponse_caught(r, lineUserId) ==
    IF lineUserId = <<>> THEN Respond(500, ServerError)
    ELSE IF r.method = "OPTIONS" /\ ~AnswersPreflightFirst THEN Respond(200, Ended)
    ELSE IF variant = "apikey" THEN ReceivedApikey(lineUserId)
    ELSE IF variant \notin {"oauth", "token"} THEN Respond(200, Received)
    ELSE SentTo(lineUserId, ReplyText(r))

\* the response once the handler knows the user id (<<>>: none)
ReplyResponse(r, lineUserId) ==
    IF r.method = "OPTIONS" /\ ~AnswersPreflightFirst THEN Respond(200, Ended)
    ELSE IF variant = "apikey" THEN ReceivedApikey(lineUserId)
    ELSE IF variant \notin {"oauth", "token"} THEN Respond(200, Received)
    ELSE IF lineUserId = <<>> THEN Respond(200, SkippedNoUser)
    ELSE SentTo(lineUserId, ReplyText(r))

\* The history record of a reverse lookup.
ReplyRecord(r, lineUserId, contact) ==
    [d |-> deliveries, req |-> r, uid |-> lineUserId, contact |-> contact]

\* The handler from the point where the user id is known: it pushes (and
\* awaits the push, or not) and responds.  sendLineMessage returns at once
\* without an access token.
Resolved(t, r, lineUserId, contact, baseLog, baseRes, entries, nfail, cache) ==
    LET push == lineUserId # <<>> /\ LINE_CHANNEL_ACCESS_TOKEN
        respondNow == ~push \/ PushDetached
    IN
    /\ done' = done \cup {ReplyRecord(r, lineUserId, contact)}
    /\ log' = [baseLog EXCEPT ![t] = @ \o entries]
    /\ failures' = failures + nfail
    /\ kommoTokenCache' = cache
    /\ res' = IF respondNow THEN Append(baseRes, ReplyResponse(r, lineUserId)) ELSE baseRes
    /\ tasks' = [tasks EXCEPT ![t] =
                    IF push THEN [IdleTask EXCEPT !.pc = "push", !.uid = lineUserId]
                    ELSE IdleTask]

\* A step that leaves the handler at its next await.
Awaiting(t, pc, contactId, baseLog, baseRes, entries, nfail, cache) ==
    /\ done' = done
    /\ log' = [baseLog EXCEPT ![t] = @ \o entries]
    /\ failures' = failures + nfail
    /\ kommoTokenCache' = cache
    /\ res' = baseRes
    /\ tasks' = [tasks EXCEPT ![t] = [IdleTask EXCEPT !.pc = pc, !.contactId = contactId]]

\* The handler from the arrival of the request to its first await or to
\* its response.
KommoWebhook ==
    /\ \A t \in TaskIds : tasks[t].pc = "idle"
    /\ deliveries < MaxReplies
    /\ \E r \in KommoRequests :
         LET fromBody == LineUserIdFromBody(r)
             mayFetch == r.contactId # 0 /\ (variant = "apikey" => KOMMO_CREDENTIALS)
         IN
         /\ req' = r
         /\ deliveries' = deliveries + 1
         /\ IF AnswersPreflightFirst /\ r.method = "OPTIONS"
            THEN /\ res' = <<Respond(200, Ended)>>
                 /\ log' = EmptyLog
                 /\ UNCHANGED <<tasks, done, failures, kommoTokenCache>>
            ELSE IF variant \in {"oauth", "token"} /\ ReplyText(r) = <<>>
            THEN /\ res' = <<IF r.method = "OPTIONS" THEN Respond(200, Ended)
                             ELSE Respond(200, SkippedNoText)>>
                 /\ log' = EmptyLog
                 /\ UNCHANGED <<tasks, done, failures, kommoTokenCache>>
            ELSE IF variant \in {"oauth", "token"} /\ r.contactId = 0 /\ r.leadId # 0
            THEN Awaiting(1, "fetchLead", 0, EmptyLog, <<>>, <<>>, 0, kommoTokenCache)
            ELSE IF fromBody = <<>> /\ mayFetch
            THEN Awaiting(1, "fetchContact", r.contactId, EmptyLog, <<>>, <<>>, 0,
                          kommoTokenCache)
            ELSE Resolved(1, r, fromBody, NoContact, EmptyLog, <<>>, <<>>, 0,
                          kommoTokenCache)
    /\ UNCHANGED <<config, fn, crm, now, eventsSeen>>

\* GET /leads/{id}?with=contacts of getKommoContactAndLineUserId ("oauth",
\* "token"): the lead's first contact; any failure leaves the contact null
getKommoContactAndLineUserId(t) ==
    LET cur == tasks[t] IN
    /\ variant \in {"oauth", "token"}
    /\ cur.pc = "fetchLead"
    /\ \E a \in KommoAuth(0) : \E o \in SendOutcomes(a) :
         LET known == req.leadId \in 1..Len(leads)
             ok == o = "ok" /\ known
             contactId == IF ok THEN leads[req.leadId].contactId ELSE 0
             entries == a.entries \o Sent(o, Entry("leadFetch", 0, ok, <<>>, req.leadId,
                                                  <<>>, <<>>))
         IN  IF contactId # 0
             THEN Awaiting(t, "fetchContact", contactId, log, res, entries,
                           a.failed + Failed(o), a.cache)
             ELSE Resolved(t, req, <<>>, NoContact, log, res, entries,
                           a.failed + Failed(o), a.cache)
    /\ UNCHANGED <<config, fn, crm, now, req, deliveries, eventsSeen>>

\* GET /contacts/{id}, then the id read from the contact
fetchKommoContact(t) ==
    LET cur == tasks[t] IN
    /\ cur.pc = "fetchContact"
    /\ \E a \in KommoAuth(0) : \E o \in SendOutcomes(a) :
         LET known == cur.contactId \in 1..Len(contacts)
             ok == o = "ok" /\ known
             contact == IF ok THEN contacts[cur.contactId] ELSE NoContact
         IN  Resolved(t, req, LineUserIdFromContact(contact), contact, log, res,
                      a.entries \o Sent(o, Entry("contactFetch", 0, ok, <<>>, cur.contactId,
                                                 <<>>, <<>>)),
                      a.failed + Failed(o), a.cache)
    /\ UNCHANGED <<config, fn, crm, now, req, deliveries, eventsSeen>>

\* sendLineMessage that posts again after a failed POST
sendLineMessage_retry(t) ==
    LET cur == tasks[t] IN
    /\ cur.pc = "push"
    /\ \E o \in Outcomes(failures) :
         /\ log' = [log EXCEPT ![t] = Append(@, Entry("push", 0, o = "ok", cur.uid, 0, <<>>,
                                                      ReplyText(req)))]
         /\ failures' = failures + Failed(o)
         /\ res' = IF PushDetached \/ o # "ok" THEN res
                   ELSE Append(res, ReplyResponse(req, cur.uid))
         /\ tasks' = [tasks EXCEPT ![t] = IF o = "ok" THEN IdleTask ELSE cur]
    /\ UNCHANGED <<config, fn, crm, kommoTokenCache, now, req, done, deliveries, eventsSeen>>

\* POST /v2/bot/message/push; the revisions that await it respond after it
sendLineMessage(t) ==
    LET cur == tasks[t] IN
    /\ cur.pc = "push"
    /\ \E o \in Outcomes(failures) :
         /\ log' = [log EXCEPT ![t] = Append(@, Entry("push", 0, o = "ok", cur.uid, 0, <<>>,
                                                      ReplyText(req)))]
         /\ failures' = failures + Failed(o)
    /\ res' = IF PushDetached THEN res ELSE Append(res, ReplyResponse(req, cur.uid))
    /\ tasks' = [tasks EXCEPT ![t] = IdleTask]
    /\ UNCHANGED <<config, fn, crm, kommoTokenCache, now, req, done, deliveries, eventsSeen>>

---------------------------------------------------------------------------
(* Specification of the Kommo -> LINE direction                            *)

\* the contact of the CRM: its name and tags may name different users
ReplyContacts ==
    {[id |-> 1, name |-> n, tags |-> g, fields |-> f] :
        n \in {<<"LINE", SP>> \o U2, <<"Al", SP, "(", "LINE", SP>> \o U2 \o <<")">>,
               <<"Bob">>},
        g \in {<<>>, <<GenericTag>>, <<GenericTag, UidTag(U1)>>},
        f \in {<<>>, <<U1>>}}

ReplyLead ==
    [id |-> 1, name |-> <<"[LINE]", SP, "Al">>, contactId |-> 1, tags |-> <<GenericTag>>,
     status_id |-> KOMMO_LINE_STATUS_ID]

\* the same lead without a linked contact
UnlinkedLead == [ReplyLead EXCEPT !.contactId = 0]

InitReply ==
    /\ variant \in Variants
    /\ \E c \in {k \in Configs : k.secret # <<>>} :
         /\ LINE_CHANNEL_SECRET = c.secret
         /\ LINE_CHANNEL_ACCESS_TOKEN = c.token
         /\ KOMMO_CREDENTIALS = c.kommo
    /\ fn = NoFn
    /\ \E c \in ReplyContacts : contacts = <<c>>
    /\ leads \in {<<ReplyLead>>, <<UnlinkedLead>>}
    /\ notes = <<>>
    /\ kommoTokenCache = EmptyCache
    /\ now = 0
    /\ req = NoRequest
    /\ tasks = [t \in TaskIds |-> IdleTask]
    /\ log = EmptyLog
    /\ res = <<>>
    /\ done = {}
    /\ deliveries = 0
    /\ eventsSeen = 0
    /\ failures = 0

NextReply ==
    \/ KommoWebhook
    \/ \E t \in TaskIds : getKommoContactAndLineUserId(t)
    \/ \E t \in TaskIds : fetchKommoContact(t)
    \/ \E t \in TaskIds : sendLineMessage(t)

SpecReply == InitReply /\ [][NextReply]_vars

---------------------------------------------------------------------------
(* Specification of the signature check alone: the inputs are drawn at     *)
(* start, one action applies the function.                                 *)

Secrets == SeqsUpTo({1, 2}, MaxSecretLen)
RawBodies == {StringBody(b) : b \in SeqsUpTo(Bytes, MaxBodyLen)} \cup {NoBody}
SignatureHeaders == {NoHeader} \cup {Header(v) : v \in SeqsUpTo(Base64Digits, 2)}

InitVerify ==
    /\ variant \in Variants
    /\ LINE_CHANNEL_SECRET \in Secrets
    /\ LINE_CHANNEL_ACCESS_TOKEN = TRUE
    /\ KOMMO_CREDENTIALS = TRUE
    /\ \E b \in RawBodies, s \in SignatureHeaders :
           fn = [op |-> "verifyLineSignature", body |-> b, sig |-> s, done |-> FALSE,
                 result |-> FALSE]
    /\ contacts = <<>> /\ leads = <<>> /\ notes = <<>>
    /\ kommoTokenCache = EmptyCache /\ now = 0
    /\ req = NoRequest /\ tasks = [t \in TaskIds |-> IdleTask]
    /\ log = EmptyLog /\ res = <<>> /\ done = {}
    /\ deliveries = 0 /\ eventsSeen = 0 /\ failures = 0

ApplyVerify ==
    /\ fn.op = "verifyLineSignature"
    /\ ~fn.done
    /\ fn' = [fn EXCEPT !.done = TRUE, !.result = VerifySignature(fn.body, fn.sig)]
    /\ UNCHANGED <<config, crm, kommoTokenCache, now, req, tasks, log, res, done, counters>>

NextVerify == ApplyVerify

SpecVerify == InitVerify /\ [][NextVerify]_vars

---------------------------------------------------------------------------
(* Specification of the token cache under concurrent calls: every task is  *)
(* a call of getKommoAccessToken of "oauth", which checks the cache, and   *)
(* posts a token request and writes the cache after its await.             *)

MaxCalls == 3        \* calls of getKommoAccessToken over a run

\* expires_in of the token responses, in seconds
Lifetimes == ExpiresIn \cup {180}

\* resp.data of a token response: "malformed" lacks expires_in
TokenData(o, token, e) ==
    [access_token |-> IF o = "error" THEN 0 ELSE token,
     expires_in |-> IF o = "ok" THEN e ELSE 0,
     at |-> now]

\* the tokens Kommo has issued so far
Issued ==
    UNION {{log[t][i].result[1].access_token : i \in 1..Len(log[t])} : t \in TaskIds}

\* The history record of a call that has returned (token 0: it threw).
CallRecord(t, token, fetched) ==
    [n |-> Cardinality(done) + 1, t |-> t, token |-> token, fetched |-> fetched, at |-> now]

InFlight == {t \in TaskIds : tasks[t].pc = "tokenPost"}

\* The function from its call to its return, its throw or its await.
getKommoAccessToken_call(t) ==
    /\ tasks[t].pc = "idle"
    /\ Cardinality(done) + Cardinality(InFlight) < MaxCalls
    /\ IF kommoTokenCache.accessToken # 0
          /\ kommoTokenCache.expiresAt - now > RefreshMarginMs
       THEN /\ done' = done \cup {CallRecord(t, kommoTokenCache.accessToken, FALSE)}
            /\ tasks' = tasks
       ELSE IF ~KOMMO_CREDENTIALS
       THEN /\ done' = done \cup {CallRecord(t, 0, FALSE)}
            /\ tasks' = tasks
       ELSE /\ done' = done
            /\ tasks' = [tasks EXCEPT ![t].pc = "tokenPost"]
    /\ UNCHANGED <<config, fn, crm, kommoTokenCache, now, req, log, res, counters>>

\* The function from the answer of the token request to its return or throw,
\* without the check of the response data
getKommoAccessToken_unchecked(t) ==
    /\ tasks[t].pc = "tokenPost"
    /\ \E o \in CreateOutcomes(failures), e \in Lifetimes :
         LET data == TokenData(o, Cardinality(Issued \ {0}) + 1, e)
             written == [accessToken |-> data.access_token,
                         expiresAt |-> now + data.expires_in * 1000]
         IN
         /\ log' = [log EXCEPT ![t] = Append(@, Entry("tokenFetch", 0, o = "ok", <<>>,
                                                      data.expires_in, <<>>, <<data>>))]
         /\ failures' = failures + Failed(o)
         /\ IF o # "error"
            THEN /\ kommoTokenCache' = written
                 /\ done' = done \cup {CallRecord(t, written.accessToken, TRUE)}
            ELSE /\ kommoTokenCache' = kommoTokenCache
                 /\ done' = done \cup {CallRecord(t, 0, TRUE)}
    /\ tasks' = [tasks EXCEPT ![t] = IdleTask]
    /\ UNCHANGED <<config, fn, crm, now, req, res, deliveries, eventsSeen>>

\* The function from the answer of the token request to its return or throw:
\* axios throws on an error, the function on data without access_token or
\* expires_in; else both fields of the cache are written and the cached
\* token is returned.
getKommoAccessToken_response(t) ==
    /\ tasks[t].pc = "tokenPost"
    /\ \E o \in CreateOutcomes(failures), e \in Lifetimes :
         LET data == TokenData(o, Cardinality(Issued \ {0}) + 1, e)
             written == [accessToken |-> data.access_token,
                         expiresAt |-> now + data.expires_in * 1000]
         IN
         /\ log' = [log EXCEPT ![t] = Append(@, Entry("tokenFetch", 0, o = "ok", <<>>,
                                                      data.expires_in, <<>>, <<data>>))]
         /\ failures' = failures + Failed(o)
         /\ IF data.access_token # 0 /\ data.expires_in # 0
            THEN /\ kommoTokenCache' = written
                 /\ done' = done \cup {CallRecord(t, written.accessToken, TRUE)}
            ELSE /\ kommoTokenCache' = kommoTokenCache
                 /\ done' = done \cup {CallRecord(t, 0, TRUE)}
    /\ tasks' = [tasks EXCEPT ![t] = IdleTask]
    /\ UNCHANGED <<config, fn, crm, now, req, res, deliveries, eventsSeen>>

InitToken ==
    /\ variant = "oauth"
    /\ \E c \in Configs :
         /\ LINE_CHANNEL_SECRET = c.secret
         /\ LINE_CHANNEL_ACCESS_TOKEN = c.token
         /\ KOMMO_CREDENTIALS = c.kommo
    /\ fn = NoFn
    /\ contacts = <<>> /\ leads = <<>> /\ notes = <<>>
    /\ kommoTokenCache = EmptyCache /\ now = 0
    /\ req = NoRequest /\ tasks = [t \in TaskIds |-> IdleTask]
    /\ log = EmptyLog /\ res = <<>> /\ done = {}
    /\ deliveries = 0 /\ eventsSeen = 0 /\ failures = 0

NextToken ==
    \/ \E t \in TaskIds : getKommoAccessToken_call(t)
    \/ \E t \in TaskIds : getKommoAccessToken_response(t)
    \/ Tick

SpecToken == InitToken /\ [][NextToken]_vars

---------------------------------------------------------------------------
(* Properties of POST /line/webhook                                        *)

SecretConfigured == LINE_CHANNEL_SECRET # <<>>

\* base64(HMAC-SHA256(raw body)) under the configured secret
ExpectedSignature == Base64(HmacSha256(LINE_CHANNEL_SECRET, RawBody(req.body).bytes))

Delivered == deliveries > 0

NoOutboundCall == \A t \in TaskIds : log[t] = <<>>

HandlerIdle == \A t \in TaskIds : tasks[t].pc = "idle"

Rejected == res = <<Respond(401, BadSignature)>> /\ NoOutboundCall /\ HandlerIdle

\* the signature header of the delivery is present and is not the HMAC
SignatureMismatch ==
    Delivered /\ SecretConfigured /\ Truthy(req.sig) /\ req.sig.value # ExpectedSignature

\* C1: a delivery received while a channel secret is configured, whose
\* x-line-signature header is present and differs from the base64
\* HMAC-SHA256 of the raw body, is answered 401 and no outbound call is
\* issued for it.
C1_InvalidSignatureRejected == SignatureMismatch => Rejected

\* a mismatched delivery that was answered 200 after outbound calls
C1_MismatchProcessed ==
    /\ SignatureMismatch
    /\ res = <<Respond(200, OkTrue)>>
    /\ \E t \in TaskIds : log[t] # <<>>

\* C3: with a channel secret configured, a delivery without the
\* x-line-signature header is rejected (401) and none of its events is
\* processed.
C3_AbsentHeaderRejected ==
    (Delivered /\ SecretConfigured /\ ~req.sig.present) => Rejected

\* a delivery without the header whose event reached the CRM
C3_AbsentHeaderProcessed ==
    /\ Delivered /\ SecretConfigured /\ ~req.sig.present
    /\ res = <<Respond(200, OkTrue)>>
    /\ \E t \in TaskIds : log[t] # <<>>

\* the delivery passed the handler's signature check
PassesSignature == Delivered /\ ~Rejects(RawBody(req.body), req.sig)

\* C4 (as amended): a delivery that passes the signature check is answered
\* 400 when its body is not parseable as JSON; when the body parses to a
\* value other than null that has no events array it is answered 200
\* {ok:true, message:"no events"}; when it parses to null the handler
\* throws (500 or no response).  No outbound call is issued in any of these
\* cases, and 401 is sent only when the signature check fails.
C4_MalformedBody ==
    /\ (PassesSignature /\ req.body.kind \in {"garbage", "nobody"})
         => (res = <<Respond(400, InvalidJson)>> /\ NoOutboundCall /\ HandlerIdle)
    /\ (PassesSignature /\ req.body.kind = "noevents")
         => (res = <<Respond(200, NoEvents)>> /\ NoOutboundCall /\ HandlerIdle)
    /\ (PassesSignature /\ req.body.kind = "null")
         => (res \in {<<>>, <<Respond(500, ServerError)>>} /\ NoOutboundCall /\ HandlerIdle)
    /\ (\E i \in 1..Len(res) : res[i].status = 401) => ~PassesSignature

\* a body without events array that passed the check and was answered 200
C4_NoEventsAnswered200 ==
    PassesSignature /\ req.body.kind = "noevents" /\ res = <<Respond(200, NoEvents)>>

\* C4 as stated: a delivery that passes the signature check and whose body
\* is not parseable, or parses to a value (other than null) without an
\* events array, is answered 400 without outbound calls; 401 is sent only
\* when the signature check fails.
C4_MalformedBodyIs400 ==
    /\ (PassesSignature /\ req.body.kind \in {"garbage", "nobody", "noevents"})
         => (res = <<Respond(400, InvalidJson)>> /\ NoOutboundCall)
    /\ (\E i \in 1..Len(res) : res[i].status = 401) => ~PassesSignature

\* the delivery passed the check and its body has an events array
Accepted == PassesSignature /\ req.body.kind = "events"

AllEntries == UNION {{log[t][i] : i \in 1..Len(log[t])} : t \in TaskIds}

\* C5: a delivery that passes the signature check and carries an events
\* array gets no other response than 200 {ok:true}, and has got it when
\* the handler has returned, whatever the number of events and whichever
\* outbound calls failed.
C5_AcceptedIsOk ==
    Accepted =>
        /\ res \in {<<>>, <<Respond(200, OkTrue)>>}
        /\ (HandlerIdle \/ variant = "apikey") => res = <<Respond(200, OkTrue)>>

\* two events, a failed outbound call, and the response 200 {ok:true}
C5_OkDespiteFailure ==
    /\ Accepted
    /\ Len(req.body.events) = 2
    /\ \E e \in AllEntries : ~e.ok
    /\ HandlerIdle
    /\ res = <<Respond(200, OkTrue)>>

CrmOps ==
    {"contactSearch", "contactCreate", "contactPatch", "leadSearch", "leadCreate",
     "noteCreate"}

\* C6: the HTTP acknowledgment of an accepted delivery is sent before its
\* CRM calls are awaited: every CRM call of the delivery is answered after
\* the response was sent.
C6_AckBeforeCrmCalls ==
    Accepted => \A e \in AllEntries : e.op \in CrmOps => e.acked

\* a response that was sent only after the CRM calls had been answered
C6_AckAfterCrmCalls ==
    /\ Accepted
    /\ res = <<Respond(200, OkTrue)>>
    /\ \E e \in AllEntries : e.op = "noteCreate" /\ ~e.acked

---------------------------------------------------------------------------
(* Properties of the contact and lead resolution                           *)

\* r1 was handled, to its end, before r2 started: an earlier delivery, or
\* an earlier event of the same delivery in a handler that awaits each
\* event.
Before(r1, r2) ==
    \/ r1.d < r2.d
    \/ r1.d = r2.d /\ r1.ev < r2.ev /\ variant # "apikey"

\* a contact search that found a contact is followed by no contact create,
\* and the lead lookup of the event uses the id that was found
FoundIsUsed ==
    /\ \A r \in done : r.foundId # 0 => (~r.created /\ r.contactId = r.foundId)
    /\ \A t \in TaskIds : \A i, k \in 1..Len(log[t]) :
         (/\ i < k
          /\ log[t][i].ev = log[t][k].ev
          /\ log[t][i].op = "contactSearch" /\ log[t][i].id # 0)
         => /\ log[t][k].op # "contactCreate"
            /\ log[t][k].op = "leadSearch" => log[t][k].id = log[t][i].id

NonTerminalIds(found) == {found[i].id : i \in {k \in 1..Len(found) : ~Terminal(found[k])}}

\* C8: when the lead search is answered and the contact's only lead is
\* terminal (won 142 or lost 143), a new lead is created and the terminal
\* one is not used; when the contact has a lead in a non-terminal status,
\* such a lead is used and no lead create is issued.
C8_TerminalLeadNotReused ==
    \A r \in done :
        r.leadSearchOk =>
            /\ (Len(r.crmLeads) = 1 /\ Terminal(r.crmLeads[1]))
                 => (r.leadCreated /\ r.leadId # r.crmLeads[1].id)
            /\ (NonTerminalIds(r.crmLeads) # {})
                 => (~r.leadCreated /\ r.leadId \in NonTerminalIds(r.crmLeads))

\* a won or lost lead, the contact's only one, that was used again
C8_TerminalLeadReused ==
    \E r \in done :
        /\ r.leadSearchOk
        /\ Len(r.crmLeads) = 1 /\ Terminal(r.crmLeads[1])
        /\ r.leadId = r.crmLeads[1].id
        /\ ~r.leadCreated

---------------------------------------------------------------------------
(* The first message of an unknown user, end to end                        *)

E2EOps == {"contactSearch", "contactCreate", "leadCreate", "noteCreate"}

IsE2ECall(e) == e.op \in E2EOps

\* the contact search/create, lead create and note create calls of the
\* delivery's first task, in order
E2ECalls == SelectSeq(log[1], IsE2ECall)

\* Every contact of the CRM was created by this delivery.
NoPriorContact ==
    \A i \in 1..Len(contacts) :
        \E e \in AllEntries : e.op = "contactCreate" /\ e.id = contacts[i].id

\* a validly signed delivery of one text event from U1, handled to its
\* end with every outbound call answered successfully, against a CRM
\* that had no contact
FirstMessageHandled ==
    /\ Delivered
    /\ req = [body |-> Body("events", <<TextFromU1>>), sig |-> Header(ExpectedSignature)]
    /\ KOMMO_CREDENTIALS
    /\ NoPriorContact
    /\ \A e \in AllEntries : e.ok
    /\ HandlerIdle
    /\ \E r \in done : r.d = deliveries

\* C10: for a validly signed delivery with one text event from an
\* identifier unknown to the CRM, the handler issues in this order one
\* contact search whose query is the identifier, one contact create whose
\* tags include LINE_UID_<identifier>, one lead create linked to the
\* created contact and one note create whose text contains the message
\* text, and answers 200 {ok:true}.
C10_FirstMessageCalls ==
    FirstMessageHandled =>
        /\ Len(E2ECalls) = 4
        /\ E2ECalls[1].op = "contactSearch" /\ E2ECalls[1].str = U1
        /\ E2ECalls[2].op = "contactCreate"
        /\ \E i \in 1..Len(E2ECalls[2].tags) : E2ECalls[2].tags[i] = UidTag(U1)
        /\ E2ECalls[3].op = "leadCreate" /\ E2ECalls[3].id = E2ECalls[2].id
        /\ E2ECalls[4].op = "noteCreate" /\ Includes(E2ECalls[4].str, Hello)
        /\ res = <<Respond(200, OkTrue)>>

\* the first message handled with a contact create that carries no
\* LINE_UID_ tag
C10_ContactWithoutUidTag ==
    /\ FirstMessageHandled
    /\ Len(E2ECalls) = 4
    /\ E2ECalls[2].op = "contactCreate"
    /\ \A i \in 1..Len(E2ECalls[2].tags) : E2ECalls[2].tags[i] # UidTag(U1)

---------------------------------------------------------------------------
(* Properties of verifyLineSignature                                       *)

\* C2: with a secret configured, verifyLineSignature(B, sig) is true when
\* sig is the base64 HMAC-SHA256 of B under the secret, and false for
\* every other present, non-empty signature.
C2_VerifyIffHmac ==
    (fn.op = "verifyLineSignature" /\ fn.done /\ SecretConfigured
        /\ fn.body.isString /\ Truthy(fn.sig))
    => (fn.result = (fn.sig.value = Base64(HmacSha256(LINE_CHANNEL_SECRET, fn.body.bytes))))

\* a mismatched signature that verifyLineSignature accepted
C2_MismatchAccepted ==
    /\ fn.op = "verifyLineSignature" /\ fn.done /\ SecretConfigured
    /\ fn.body.isString /\ Truthy(fn.sig)
    /\ fn.sig.value # Base64(HmacSha256(LINE_CHANNEL_SECRET, fn.body.bytes))
    /\ fn.result = TRUE

---------------------------------------------------------------------------
(* Properties of the reverse lookup                                        *)

UserIds == {U1, U2}

\* the contact that was fetched carries LINE_UID_<a> and a name that holds
\* another user id
TagAndNameDisagree(contact, a) ==
    /\ contact.id # 0
    /\ HasTag(contact, UidTag(a))
    /\ \E b \in UserIds : b # a /\ Includes(contact.name, b)

\* C9: when the contact consulted for a reply carries both a tag
\* LINE_UID_<id> and a name with an embedded identifier that disagrees
\* with the tag, the chat user identifier resolved for the reply is the
\* one of the tag.
C9_TagWinsOverName ==
    \A r \in done : \A a \in UserIds :
        TagAndNameDisagree(r.contact, a) => r.uid = a

\* a reply addressed to the identifier of the name, against the tag
C9_NameWonOverTag ==
    \E r \in done : \E a \in UserIds :
        /\ TagAndNameDisagree(r.contact, a)
        /\ r.uid # a /\ r.uid \in UserIds
        /\ Includes(r.contact.name, r.uid)
        /\ \E e \in AllEntries : e.op = "push" /\ e.str = r.uid

---------------------------------------------------------------------------
(* Properties of the notes                                                 *)

\* the records of the events of the delivery being handled
Current == {r \in done : r.d = deliveries}

LogPositions == UNION {{<<t, i>> : i \in 1..Len(log[t])} : t \in TaskIds}

At(p) == log[p[1]][p[2]]

\* the calls with operation `op` issued for the event of record r
CallsOf(r, op) == {p \in LogPositions : At(p).op = op /\ At(p).ev = r.ev}

NoteCalls(r) == CallsOf(r, "noteCreate")

\* the calls on notes other than a create
NoteMutations == {"noteUpdate", "noteDelete"}

\* C11: for every processed text message for which a lead id was
\* resolved, exactly one note-create call is issued, addressed to that lead
\* and carrying the message text; no call updates or deletes a note.
C11_OneNotePerMessage ==
    /\ \A r \in Current :
         r.leadId # 0 =>
             /\ Cardinality(NoteCalls(r)) = 1
             /\ \A p \in NoteCalls(r) :
                  /\ At(p).id = r.leadId
                  /\ Includes(At(p).str, req.body.events[r.ev].text)
    /\ \A e \in AllEntries : e.op \notin NoteMutations

\* a text message for which a lead was created, handled to its end
\* without any note-create call
C11_LeadWithoutNote ==
    \E r \in Current :
        /\ r.leadId # 0 /\ r.leadCreated
        /\ req.body.events[r.ev].text = Hello
        /\ NoteCalls(r) = {}
        /\ HandlerIdle

---------------------------------------------------------------------------
(* Properties of ALL /kommo/webhook                                        *)

PushCalls == {p \in LogPositions : At(p).op = "push"}

\* a request other than a preflight whose reply text is missing or blank
BlankReply == Delivered /\ req.method # "OPTIONS" /\ Trim(req.text) = <<>>

\* the responses that report ok:true with skipped:true
Skipped == {Respond(200, SkippedNoText), Respond(200, SkippedNoUser)}

\* C12: a request to /kommo/webhook whose body has no text-bearing field,
\* or whose reply text is empty or white space only, is answered with a
\* JSON body that reports ok:true and skipped:true, and no call to the
\* LINE push endpoint is made.
C12_BlankReplySkipped ==
    BlankReply =>
        /\ PushCalls = {}
        /\ \A t \in TaskIds : tasks[t].pc # "push"
        /\ \A i \in 1..Len(res) : res[i] \in Skipped
        /\ HandlerIdle => Len(res) = 1

\* a request with a blank reply text for which the API-key revision pushed
\* a text to LINE
C12_PlaceholderPushed ==
    /\ BlankReply
    /\ variant = "apikey"
    /\ req.text = Blank
    /\ \E p \in PushCalls : At(p).ok /\ At(p).result # <<>>
    /\ HandlerIdle
    /\ res = <<ReceivedApikey(U2)>>

\* a request other than a preflight with a reply text
TextReply == Delivered /\ req.method # "OPTIONS" /\ Trim(req.text) # <<>>

\* the contact resolved for the request carries the tag LINE_UID_<a>
ResolvedContactTagged(a) ==
    \E r \in done : r.contact.id # 0 /\ HasTag(r.contact, UidTag(a))

\* C13: for a request with a non-blank reply text whose resolved contact
\* carries the tag LINE_UID_<id> (the LINE access token being set),
\* exactly one push call is made, addressed to <id> and carrying the
\* trimmed reply text, and the response is 200 {ok:true, sent:true,
\* lineUserId:<id>}.
C13_TaggedContactGetsReply ==
    \A a \in UserIds :
        (TextReply /\ LINE_CHANNEL_ACCESS_TOKEN /\ ResolvedContactTagged(a)) =>
            /\ res = <<SentTo(a, Trim(req.text))>>
            /\ Cardinality(PushCalls) <= 1
            /\ \A p \in PushCalls : At(p).str = a /\ At(p).result = Trim(req.text)
            /\ HandlerIdle => Cardinality(PushCalls) = 1

\* a reply whose contact carries LINE_UID_U1 and that was not pushed
C13_TaggedContactNoPush ==
    /\ variant = "apikey"
    /\ TextReply /\ LINE_CHANNEL_ACCESS_TOKEN
    /\ ResolvedContactTagged(U1)
    /\ HandlerIdle
    /\ PushCalls = {}
    /\ res = <<ReceivedApikey(<<>>)>>

\* the handler found no chat user identifier for the request
Unresolved == TextReply /\ \E r \in done : r.uid = <<>>

\* C14: for a request with a non-blank reply text for which no chat user
\* identifier can be resolved (no lead or contact id in the body, a failed
\* CRM fetch, a contact without identity marker), no push call is made and
\* the response is a success with a skipped indicator (ok:true,
\* skipped:true).
C14_UnresolvedIsSkipped ==
    Unresolved =>
        /\ PushCalls = {}
        /\ \A t \in TaskIds : tasks[t].pc # "push"
        /\ Len(res) = 1
        /\ res[1] \in Skipped

\* an unresolved reply answered like a delivered one, without a skipped
\* indicator
C14_UnresolvedNotReported ==
    /\ variant = "leadtag"
    /\ Unresolved
    /\ \E e \in AllEntries : e.op = "contactFetch" /\ ~e.ok
    /\ PushCalls = {}
    /\ res = <<Respond(200, Received)>>

\* the JSON bodies that hold ok:true
JsonOk == {Received, SkippedNoText, SkippedNoUser, SentTrue}

\* C15 (as amended): every request to /kommo/webhook, whatever its method
\* and body and whichever CRM or LINE call fails, gets exactly one
\* response, with status 200; the body is JSON that holds ok:true, except
\* for an OPTIONS request, whose response has no body.
C15_AlwaysAnswered200 ==
    Delivered =>
        /\ Len(res) <= 1
        /\ HandlerIdle => Len(res) = 1
        /\ \A i \in 1..Len(res) :
             /\ res[i].status = 200
             /\ IF req.method = "OPTIONS" THEN res[i].body = Ended
                ELSE res[i].body \in JsonOk

\* an OPTIONS request whose CRM call failed, answered 200 without a body
C15_PreflightWithoutBody ==
    /\ Delivered
    /\ req.method = "OPTIONS"
    /\ \E e \in AllEntries : e.op = "contactFetch" /\ ~e.ok
    /\ HandlerIdle
    /\ res = <<Respond(200, Ended)>>

\* C15 as stated: every request to /kommo/webhook, OPTIONS included, is
\* answered with status 200 and a JSON body that holds ok:true.
C15_AlwaysJsonOk ==
    Delivered =>
        /\ HandlerIdle => Len(res) = 1
        /\ \A i \in 1..Len(res) : res[i].status = 200 /\ res[i].body \in JsonOk

Preflight == Delivered /\ req.method = "OPTIONS"

\* C16: an OPTIONS request to /kommo/webhook is answered with status 200
\* (every revision sets the three Access-Control-Allow headers before it
\* answers), and handling it issues no CRM call and no LINE push, whatever
\* its body contains.
C16_PreflightHasNoEffect ==
    Preflight =>
        /\ res = <<Respond(200, Ended)>>
        /\ AllEntries = {}
        /\ HandlerIdle

\* an OPTIONS request for which a contact was fetched and a reply pushed
C16_PreflightPushed ==
    /\ variant = "oauth"
    /\ Preflight
    /\ \E e \in AllEntries : e.op = "contactFetch" /\ e.ok
    /\ \E p \in PushCalls : At(p).ok /\ At(p).result = Hi
    /\ HandlerIdle
    /\ res = <<Respond(200, Ended)>>

\* C17: every LINE push carries the trimmed reply text extracted from the
\* body of the /kommo/webhook request that caused it; no placeholder,
\* error or system-generated text is pushed.
C17_OnlyRelayedReplies ==
    \A p \in PushCalls :
        /\ Delivered
        /\ Trim(req.text) # <<>>
        /\ At(p).result = Trim(req.text)

\* a push whose text is not the reply text of the request
C17_TestTextPushed ==
    /\ variant = "byname"
    /\ Delivered /\ req.text = Hi
    /\ \E p \in PushCalls : At(p).ok /\ At(p).result # Hi


---------------------------------------------------------------------------
(* Properties of the event loop                                            *)

\* the events of the delivery at hand
EventsAt == req.body.events

\* the events of the delivery that are no text messages
Skips ==
    {j \in 1..Len(EventsAt) : EventsAt[j].type # "message" \/ EventsAt[j].mtype # "text"}

\* Does the loop's work for event j reach an outbound call?  (Without Kommo
\* credentials handleIncomingLineText of "apikey" returns at once.)
Works(j) == Handled(EventsAt[j]) /\ (variant = "apikey" => KOMMO_CREDENTIALS)

\* C18: in an accepted delivery only the events of type "message" with a
\* message of type "text" are worked on: no outbound call is made for any
\* other event, no work is in progress for it, the delivery is answered with
\* nothing but 200 {ok:true}, and when the delivery has ended every event
\* that the loop handles, after a skipped one as well, has been worked on.
C18_OnlyTextEventsProcessed ==
    Accepted =>
        /\ \A p \in LogPositions : At(p).ev \notin Skips
        /\ \A t \in TaskIds : tasks[t].pc # "idle" => tasks[t].idx \notin Skips
        /\ \A r \in Current : r.ev \notin Skips
        /\ \A i \in 1..Len(res) : res[i] = Respond(200, OkTrue)
        /\ (HandlerIdle /\ res # <<>>) =>
               \A j \in 1..Len(EventsAt) : Works(j) => \E r \in Current : r.ev = j

\* A delivery of a skipped event followed by a text message has ended: the
\* text message was worked on and calls were made for it.
C18_TextAfterSkippedHandled ==
    /\ Accepted
    /\ HandlerIdle
    /\ res = <<Respond(200, OkTrue)>>
    /\ Len(EventsAt) = 2
    /\ Skips = {1}
    /\ \E r \in Current : r.ev = 2
    /\ \E p \in LogPositions : At(p).ev = 2


\* the chat user id of an event: the id of the user, else of the group,
\* else of the room, the first that is not empty
ChatUserId(e) ==
    IF e.userId # <<>> THEN e.userId
    ELSE IF e.groupId # <<>> THEN e.groupId
    ELSE e.roomId

\* the events of the delivery whose source names no user, group or room
Anonymous == {j \in 1..Len(EventsAt) : ChatUserId(EventsAt[j]) = <<>>}

\* C19: the work for a text event runs under the id of the user, else of
\* the group, else of the room of its source; an event without any of them
\* is skipped: no work is started and no outbound call is made for it, and
\* no placeholder stands in for the id.
C19_SourceIdOrSkipped ==
    Accepted =>
        /\ \A t \in TaskIds :
               tasks[t].pc # "idle" =>
                   /\ tasks[t].idx \notin Anonymous
                   /\ tasks[t].uid = ChatUserId(EventsAt[tasks[t].idx])
        /\ \A r \in Current :
               r.ev \notin Anonymous /\ r.uid = ChatUserId(EventsAt[r.ev])
        /\ \A p \in LogPositions : At(p).ev \notin Anonymous

\* The OAuth revision has made outbound calls for a text event without a
\* source id, under the placeholder "unknown".
C19_PlaceholderUsed ==
    /\ variant = "oauth"
    /\ Accepted
    /\ \E p \in LogPositions : At(p).ev \in Anonymous
    /\ \E r \in Current : r.ev \in Anonymous /\ r.uid = Unknown


LeadCalls(r) == CallsOf(r, "leadSearch") \cup CallsOf(r, "leadCreate")

\* C20: without the id of a contact no lead is searched or created, and
\* without the id of a lead no note is created: no such call is made with
\* an id missing, and an event that ended without the id of a contact
\* (of a lead) has made no lead call (no note call).
C20_FailureCascade ==
    /\ \A p \in LogPositions :
           At(p).op \in {"leadSearch", "leadCreate", "noteCreate"} => At(p).id # 0
    /\ \A r \in Current :
           /\ r.contactId = 0 => LeadCalls(r) = {}
           /\ r.leadId = 0 => NoteCalls(r) = {}

\* The first revision of part_000 has failed to create the contact of an
\* event and has created a lead for it all the same.
C20_LeadWithoutContact ==
    /\ variant = "byname"
    /\ Accepted
    /\ \E r \in Current :
           /\ r.contactId = 0
           /\ \E p \in CallsOf(r, "contactCreate") : ~At(p).ok
           /\ \E p \in CallsOf(r, "leadCreate") : At(p).ok /\ At(p).id = 0


---------------------------------------------------------------------------
(* Properties of concurrent handling                                       *)

\* the contacts of the CRM whose name holds the identifier
ContactIdsOf(uid) == {contacts[i].id : i \in {k \in 1..Len(contacts) : Includes(contacts[k].name, uid)}}

\* The searches of both events were answered with no contact, and both
\* events went on to create one and got its id.  (An answered search finds
\* every contact of the identifier, so neither create had completed when
\* either search was answered.)
Raced(r1, r2) ==
    /\ r1.ev # r2.ev
    /\ r1.uid = r2.uid /\ r1.uid # <<>>
    /\ r1.searchOk /\ r1.foundId = 0 /\ r1.created /\ r1.contactId # 0
    /\ r2.searchOk /\ r2.foundId = 0 /\ r2.created /\ r2.contactId # 0

---------------------------------------------------------------------------
(* Properties of the fallback to the name                                  *)

HasUidTag(contact) == \E a \in UserIds : HasTag(contact, UidTag(a))

\* the contact carries the name that a revision gives the contact it
\* creates for user a
NamedFor(contact, a) ==
    \E dn \in {<<>>, <<"Al">>} :
        contact.name \in {makeLineContactName(a, dn), ContactNameApikey(a, dn)}

\* C22: when the contact that was fetched for a reply has no LINE_UID_ tag
\* and a name that embeds a chat user identifier by the naming convention,
\* the lookup resolves that identifier; when it has a LINE_UID_ tag, the
\* lookup resolves the identifier of the tag.
C22_NameFallback ==
    \A r \in done : \A a \in UserIds :
        /\ (r.contact.id # 0 /\ ~HasUidTag(r.contact) /\ NamedFor(r.contact, a)) => r.uid = a
        /\ (r.contact.id # 0 /\ HasTag(r.contact, UidTag(a))) => r.uid = a

\* The OAuth revision fetched a contact named "LINE U2" without a
\* LINE_UID_ tag and resolved no identifier: the reply was skipped.
C22_NameNotConsulted ==
    /\ variant = "oauth"
    /\ \E r \in done :
           /\ r.contact.id # 0
           /\ r.contact.name = makeLineContactName(U2, <<>>)
           /\ ~HasUidTag(r.contact)
           /\ r.uid = <<>>
    /\ res = <<Respond(200, SkippedNoUser)>>
    /\ PushCalls = {}


---------------------------------------------------------------------------
(* Properties of the contact resolution for a reply                        *)

Fetches(op) == {p \in LogPositions : At(p).op = op}

\* kommoRequest threw before it sent a request
CannotSend ==
    \/ ~KOMMO_CREDENTIALS
    \/ \E p \in Fetches("tokenFetch") : ~At(p).ok

\* C23: once the handler has resolved the contact of a reply: with a
\* contact id in the body that contact was fetched and no lead was fetched,
\* a lead id in the body or not; with a lead id only, the lead was fetched
\* and, when that was answered, its first contact was fetched, or, without
\* a linked contact, no contact was fetched and no identifier resolved.
C23_ContactResolution ==
    \A r \in done :
        /\ r.req.contactId # 0 =>
               /\ Fetches("leadFetch") = {}
               /\ CannotSend \/ \E p \in Fetches("contactFetch") : At(p).id = r.req.contactId
        /\ (r.req.contactId = 0 /\ r.req.leadId # 0) =>
               \/ CannotSend
               \/ \E p \in Fetches("leadFetch") :
                      /\ At(p).id = r.req.leadId
                      /\ At(p).ok =>
                             IF leads[r.req.leadId].contactId # 0
                             THEN \E q \in Fetches("contactFetch") :
                                      At(q).id = leads[r.req.leadId].contactId
                             ELSE Fetches("contactFetch") = {} /\ r.uid = <<>>

\* The API-key revision got a reply with a lead id only, the lead has a
\* linked contact with the tag of a user, and the handler fetched neither
\* lead nor contact and resolved no identifier.
C23_LeadNeverFetched ==
    /\ variant = "apikey"
    /\ KOMMO_CREDENTIALS
    /\ leads[1].contactId = 1
    /\ HasTag(contacts[1], UidTag(U1))
    /\ \E r \in done : r.req.contactId = 0 /\ r.req.leadId = 1 /\ r.uid = <<>>
    /\ LogPositions = {}
    /\ res = <<ReceivedApikey(<<>>)>>


---------------------------------------------------------------------------
(* Properties of the push to LINE                                          *)

PushInFlight == \E t \in TaskIds : tasks[t].pc = "push"

\* C24: the push is started and not awaited: while the push request is in
\* flight the CRM has its response already, and every push was answered
\* after the response to the CRM was sent.
C24_ResponseBeforePush ==
    /\ PushInFlight => Len(res) = 1
    /\ \A p \in PushCalls : At(p).acked

\* The API-key revision answered the CRM only after LINE had answered the
\* push.
C24_ResponseAfterPush ==
    /\ variant = "apikey"
    /\ HandlerIdle
    /\ \E p \in PushCalls : ~At(p).acked
    /\ res = <<ReceivedApikey(U2)>>


\* C25: a call of sendLineMessage posts at most once and is not repeated;
\* without an access token it posts nothing; and whether the POST failed or
\* not, the CRM gets the response that belongs to the request and the
\* identifier, with status 200.
C25_PushFailureNotSurfaced ==
    /\ Cardinality(PushCalls) <= 1
    /\ PushCalls # {} => ~PushInFlight
    /\ ~LINE_CHANNEL_ACCESS_TOKEN => (PushCalls = {} /\ ~PushInFlight)
    /\ \A p \in PushCalls : res = <<ReplyResponse(req, At(p).str)>>
    /\ \A i \in 1..Len(res) : res[i].status = 200

\* The POST to LINE failed, the handler has ended, and the CRM got the
\* response of a push that went well.
C25_FailedPushAnswered200 ==
    /\ HandlerIdle
    /\ \E p \in PushCalls :
           /\ ~At(p).ok
           /\ res = <<ReplyResponse(req, At(p).str)>>
           /\ res[1].status = 200
           /\ req.method = "POST"


---------------------------------------------------------------------------
(* Properties of the token cache                                           *)

\* the entries that a step adds to the log of a task
Added(t) ==
    IF Len(log'[t]) > Len(log[t]) THEN SubSeq(log'[t], Len(log[t]) + 1, Len(log'[t]))
    ELSE <<>>

TokenRequests(entries) == {i \in 1..Len(entries) : entries[i].op = "tokenFetch"}

KommoOps ==
    {"contactSearch", "contactPatch", "contactCreate", "leadSearch", "leadCreate",
     "noteCreate", "leadFetch", "contactFetch"}

\* the entries of a step that called kommoRequest and got past the check of
\* the credentials
CallsKommo(entries) ==
    \E i \in 1..Len(entries) : entries[i].op \in KommoOps \cup {"tokenFetch"}

\* a token is cached and at least 60 seconds of its validity remain
ValidForMargin ==
    /\ kommoTokenCache.accessToken # 0
    /\ kommoTokenCache.expiresAt - now >= RefreshMarginMs

\* C26: a step of the OAuth revision that calls getKommoAccessToken issues
\* no token request and leaves the cache alone when a token is cached with
\* at least 60 seconds of validity left; otherwise it issues one token
\* request and, when that succeeds, caches the token with the expiry
\* now + expires_in seconds.
C26_CachedTokenUntilMargin ==
    [][\A t \in TaskIds :
         (variant = "oauth" /\ CallsKommo(Added(t))) =>
             LET reqs == TokenRequests(Added(t)) IN
             IF ValidForMargin
             THEN reqs = {} /\ kommoTokenCache' = kommoTokenCache
             ELSE /\ Cardinality(reqs) = 1
                  /\ \A i \in reqs :
                         IF Added(t)[i].ok
                         THEN kommoTokenCache' =
                                  [accessToken |-> 1,
                                   expiresAt |-> now + Added(t)[i].id * 1000]
                         ELSE kommoTokenCache' = kommoTokenCache]_vars

\* A token with exactly 60 seconds of validity left was cached when the
\* delivery came in, and a new token was requested for it all the same.
C26_RefreshedAtMargin ==
    /\ variant = "oauth"
    /\ now = RefreshMarginMs
    /\ \E p \in LogPositions : At(p).op = "tokenFetch" /\ At(p).ok
    /\ kommoTokenCache.expiresAt = now + 120 * 1000


\* the token responses that were answered with a token and a lifetime
GoodResponses ==
    {At(p).result[1] : p \in {q \in Fetches("tokenFetch") : At(q).ok}}

\* the pair that getKommoAccessToken caches from a token response
PairOf(data) ==
    [accessToken |-> data.access_token, expiresAt |-> data.at + data.expires_in * 1000]

\* C27: under every interleaving of the calls of getKommoAccessToken the
\* cache is empty as at the start or holds the token and the expiry of one
\* successful token response; a failed or malformed response leaves no
\* trace in it; and every call that returned a token returned the token of
\* a successful response.
C27_CacheNeverCorrupted ==
    /\ kommoTokenCache = EmptyCache \/ \E data \in GoodResponses : kommoTokenCache = PairOf(data)
    /\ \A r \in done :
           r.token # 0 => \E data \in GoodResponses : r.token = data.access_token
    /\ GoodResponses = {} => kommoTokenCache = EmptyCache

\* Two calls found the cache stale at the same time, both token requests
\* were answered with a token, and the cache holds the pair of one of them;
\* a third token request had failed.
C27_ConcurrentRefreshes ==
    /\ InFlight = {}
    /\ \E d1, d2 \in GoodResponses :
           /\ d1.access_token # d2.access_token
           /\ d1.at = d2.at
           /\ d1.expires_in # d2.expires_in
           /\ kommoTokenCache = PairOf(d2)
    /\ \E p \in Fetches("tokenFetch") : ~At(p).ok


---------------------------------------------------------------------------
(* Properties of the failed searches                                       *)

\* Entry i of the log of task t is a search that was sent and failed, and
\* the work for its event has gone on to the create: the task stands before
\* it or the create is in the log after the search.
GoesOnToCreate(t, i, search, create, before) ==
    (log[t][i].op = search /\ ~log[t][i].ok) =>
        \/ tasks[t].idx = log[t][i].ev /\ tasks[t].pc \in before
        \/ \E k \in (i + 1)..Len(log[t]) :
               log[t][k].op = create /\ log[t][k].ev = log[t][i].ev

\* C28: a contact search that failed is followed by the contact create of
\* its event, as an empty result is, and a lead search that failed by the
\* lead create; the delivery is answered with nothing but 200 {ok:true}, and
\* when it has ended every event of it that the loop handles was worked on
\* to its end.
C28_FailedSearchIsEmptyResult ==
    /\ \A t \in TaskIds : \A i \in 1..Len(log[t]) :
           /\ GoesOnToCreate(t, i, "contactSearch", "contactCreate",
                             {"profile", "contactCreate"})
           /\ GoesOnToCreate(t, i, "leadSearch", "leadCreate", {"leadCreate"})
    /\ Accepted =>
           /\ \A i \in 1..Len(res) : res[i] = Respond(200, OkTrue)
           /\ (HandlerIdle /\ res # <<>> /\ \E e \in AllEntries : ~e.ok) =>
                  \A j \in 1..Len(EventsAt) : Works(j) => \E r \in Current : r.ev = j

\* A contact search failed, the contact was created all the same, a lead
\* and a note followed, and the delivery was answered 200 {ok:true}.
C28_CreatedAfterFailedSearch ==
    /\ HandlerIdle
    /\ res = <<Respond(200, OkTrue)>>
    /\ \E r \in Current :
           /\ ~r.searchOk /\ r.created /\ r.contactId # 0 /\ r.leadId # 0
           /\ \E p \in CallsOf(r, "contactSearch") : ~At(p).ok
           /\ \E p \in CallsOf(r, "contactCreate") : At(p).ok
           /\ \E p \in CallsOf(r, "noteCreate") : At(p).ok


---------------------------------------------------------------------------
(* Properties of the order of the events                                   *)

EventEnded(j) == \E r \in Current : r.ev = j

\* C29: the text events of a delivery are handled one after another in the
\* order of the array: work on an event, and any outbound call for it,
\* starts only when the work on every handled event before it has ended;
\* so no two events of one identifier in a delivery both search no contact
\* and both create one.
C29_EventsInOrder ==
    Accepted =>
        /\ \A p \in LogPositions : \A i \in 1..(At(p).ev - 1) : Works(i) => EventEnded(i)
        /\ \A t \in TaskIds :
               tasks[t].pc # "idle" => \A i \in 1..(tasks[t].idx - 1) : Works(i) => EventEnded(i)
        /\ \A r1, r2 \in Current : ~Raced(r1, r2)

\* In the API-key revision the second event of a delivery has searched and
\* created its contact while the first event of the same user, whose search
\* found none either, is about to create its own.
C29_SecondOvertakesFirst ==
    /\ variant = "apikey"
    /\ Accepted
    /\ tasks[1].pc = "contactCreate" /\ tasks[1].idx = 1
    /\ tasks[1].searchOk /\ tasks[1].found.id = 0
    /\ tasks[2].idx = 2 /\ tasks[2].uid = tasks[1].uid
    /\ \E p \in LogPositions : At(p).ev = 2 /\ At(p).op = "contactCreate" /\ At(p).ok
    /\ ~EventEnded(1)


---------------------------------------------------------------------------
(* Properties of termination                                               *)

\* C30: every delivery to /line/webhook gets exactly one HTTP response in
\* the end, whatever its body and whatever the outcomes of the outbound
\* calls, as long as every outbound call is answered or times out.
C30_EventuallyOneResponse ==
    /\ [](Len(res) <= 1)
    /\ (Delivered /\ res = <<>>) ~> (Len(res) = 1)

\* A delivery with a valid signature and the body null: the handler has
\* thrown on data.events, nothing is in flight and no response was sent.
C30_NullBodyUnanswered ==
    /\ variant = "oauth"
    /\ PassesSignature
    /\ req.body.kind = "null"
    /\ HandlerIdle
    /\ res = <<>>

=============================================================================
